---- MODULE Spec2Model ----
(***************************************************************************)
(* Bridge general-arrangement drafter: the DXF command generator           *)
(* (client/src/lib/dwg-generator.ts, class DWGGenerator) and the geometry  *)
(* calculator (bridge-calculations, class BridgeCalculator).               *)
(*                                                                         *)
(* Numbers.  The program computes in IEEE doubles.  Here every length and  *)
(* level is a fixed-point number counted in units of 1/Q metre; Q is a     *)
(* multiple of 100 (toFixed(2) is a rounding to a multiple of Q/100), of   *)
(* 3, 4 and 5 (span divisions) and of 80 (batter offsets), so the values   *)
(* the bounded inputs produce are represented exactly.  Sines and cosines  *)
(* are fixed-point numbers with denominator Q.                             *)
(***************************************************************************)
EXTENDS Integers, Sequences, FiniteSets, TLC

VARIABLES
    dwg,        \* the DWGGenerator instance: its private fields
    commands,   \* the command list most recently returned by a generator run
    calc,       \* the BridgeCalculator instance: params and constants
    bridgeData, \* the calculator outputs held by the drawing canvas
    lastCall,   \* the generator operation that produced commands, with its options
    probe,      \* the last point pushed through a drawing primitive or a skew
                \* transformation
    parse,      \* the last request to the parse operation and its answer
    ui,         \* the page the user works on: the state of its components
    section,    \* the last cross-section the calculator was asked for
    elev,       \* the calls of generateBridgeElevation made on the calculator
    loop,       \* the position of the grid pass in its two loops, and the layout points
    storage,    \* the MemStorage instance: its three bridge maps
    request,    \* the project request in progress, and the answers given
    tracker     \* the props of the ProgressTracker component and its steps

vars ==
    <<dwg, commands, lastCall, calc, bridgeData, probe, parse, ui,
      section, elev, loop, storage, request, tracker>>

----------------------------------------------------------------------------
(* Fixed-point arithmetic *)

Q == 12 * 100

M(n) == n * Q                  \* n metres
Dm(t) == t * (Q \div 10)       \* t tenths of a metre
Cm(c) == c * (Q \div 100)      \* c hundredths of a metre

Max(a, b) == IF a >= b THEN a ELSE b
Abs(a) == IF a >= 0 THEN a ELSE 0 - a

\* Math.floor(a / b) and Math.ceil(a / b) for b > 0
Floor(a, b) == a \div b
Ceil(a, b) == 0 - ((0 - a) \div b)

\* JavaScript's a % b: the remainder has the sign of the dividend
Rem(a, b) == IF a >= 0 THEN a % b ELSE 0 - ((0 - a) % b)

\* v.toFixed(d): v rounded to d decimals, half away from zero
RoundTo(v, step) ==
    IF v >= 0 THEN ((2 * v + step) \div (2 * step)) * step
    ELSE 0 - (((2 * (0 - v) + step) \div (2 * step)) * step)
toFixed(v, d) ==
    CASE d = 0 -> RoundTo(v, Q)
      [] d = 1 -> RoundTo(v, Q \div 10)
      [] d = 2 -> RoundTo(v, Q \div 100)
      [] OTHER -> RoundTo(v, 1)

\* Math.sin / Math.cos of skew degrees (skew * 0.0174532 radians), as
\* fixed-point numbers with denominator Q, for the angles of SiteSet
SinDeg(skew) ==
    CASE skew = 0 -> 0
      [] skew = 37 -> (3 * Q) \div 5
      [] skew = 90 -> Q
      [] OTHER -> 0
CosDeg(skew) ==
    CASE skew = 0 -> Q
      [] skew = 37 -> (4 * Q) \div 5
      [] skew = 90 -> 0
      [] OTHER -> Q

RECURSIVE Cat(_)
Cat(ss) == IF ss = <<>> THEN <<>> ELSE Head(ss) \o Cat(Tail(ss))

----------------------------------------------------------------------------
(* Bounded inputs *)

MaxSpans == 3      \* bridge lengths up to MaxSpans nominal spans
MaxPts == 2        \* cross-section profiles of up to MaxPts vertices

LengthSet == {M(20), M(100)} \cup {M(30 * k) : k \in 1..MaxSpans}

\* the sites a bridge is drawn on: left chainage, datum, top level, skew in
\* degrees and the number of river-bed vertices surveyed
SiteSet ==
    {[left |-> 0,    datum |-> 0,    toprl |-> M(20), skew |-> 0,  n |-> 0],
     [left |-> M(5), datum |-> M(2), toprl |-> M(3),  skew |-> 37, n |-> MaxPts],
     [left |-> M(5), datum |-> 0,    toprl |-> M(20), skew |-> 0,  n |-> MaxPts],
     [left |-> 0,    datum |-> M(2), toprl |-> M(3),  skew |-> 37, n |-> 0]}
ScaleSet == {2}

\* the river-bed profile of a ParameterSet: vertex k stands 5 m, 10 m, 15 m ...
\* right of left, at 1 m, 2 m, ... above datum
Profile(left, datum, n) ==
    [k \in 1..n |-> [x |-> left + M(5 * k), y |-> datum + M(k)]]

FullParameterSets ==
    {[scale1 |-> 100, scale2 |-> 50, skew |-> site.skew,
      datum |-> site.datum, toprl |-> site.toprl,
      left |-> site.left, right |-> site.left + len,
      xincr |-> M(10), yincr |-> M(5), noch |-> 10,
      crossSection |-> Profile(site.left, site.datum, site.n)] :
        site \in SiteSet, len \in LengthSet}

ParameterSets == FullParameterSets

Booleans == {TRUE, FALSE}

\* DWGExportOptions; paperSize, orientation and includeTitleBlock are never read
OptionSets ==
    [scale : ScaleSet, includeDimensions : Booleans, includeGrid : Booleans,
     includeCrossSection : Booleans, useTextStyle : Booleans,
     includeDetailedPier : Booleans, includeDetailedAbutment : Booleans]

\* crossSectionData of generateBridgeDWG / addCrossSection: {chainage, level}
SectionData(p, n) ==
    [k \in 1..n |-> [chainage |-> p.left + M(5 * k), level |-> p.datum + M(k)]]
SectionDataSets(p) == {SectionData(p, n) : n \in 0..MaxPts}

----------------------------------------------------------------------------
(* DWGGenerator: construction and coordinate transformation *)

Field(r, f, default) == IF f \in DOMAIN r THEN r[f] ELSE default

initializeParameters(params) ==
    [scale1 |-> Field(params, "scale1", 100),
     scale2 |-> Field(params, "scale2", 50),
     datum |-> Field(params, "datum", 0),
     left |-> Field(params, "left", 0),
     right |-> Field(params, "right", M(100)),
     toprl |-> Field(params, "toprl", M(10)),
     xincr |-> Field(params, "xincr", M(10)),
     yincr |-> Field(params, "yincr", M(2)),
     skew |-> Field(params, "skew", 0),
     noch |-> Field(params, "noch", 0),
     crossSection |-> Field(params, "crossSection", <<>>)]

NewDWGGenerator(params) ==
    [parameters |-> initializeParameters(params),
     scale |-> 1,
     skewAngle |-> 0,
     skewSin |-> 0,
     skewCos |-> Q,
     hhs |-> 1,
     vvs |-> 1]

\* a variant of hpos that measures from the datum instead of the left edge
hposFromDatum(g, x) == (x - g.parameters.datum) * g.scale * g.hhs

hpos(g, x) == (x - g.parameters.left) * g.scale * g.hhs

vpos(g, y) == (y - g.parameters.datum) * g.scale * g.vvs

\* the general branch of applySkew: rotate, then map
rotateThenMap(g, x, y, sin, cos) ==
    LET x1 == (x * cos - y * sin) \div Q
        y1 == (x * sin + y * cos) \div Q
    IN  [x |-> hpos(g, x1), y |-> vpos(g, y1)]

\* a variant of applySkew whose shortcut returns the point unmapped
applySkewUnmapped(g, x, y) ==
    IF g.skewAngle = 0 THEN [x |-> x, y |-> y]
    ELSE rotateThenMap(g, x, y, g.skewSin, g.skewCos)

applySkew(g, x, y) ==
    IF g.skewAngle = 0 THEN [x |-> hpos(g, x), y |-> vpos(g, y)]
    ELSE rotateThenMap(g, x, y, g.skewSin, g.skewCos)

----------------------------------------------------------------------------
(* DWGGenerator: drawing primitives.  One record stands for the group of   *)
(* code/value strings one drawLine or drawText call returns.  by and at    *)
(* record the emitting method and the element it was drawing (a chainage,  *)
(* a level or an index), part the member of that element; they are not     *)
(* part of the output.                                                     *)

NoNumber == 0 - 1

\* a text: pre, then idx (when >= 0), then num printed with dec decimals
\* (dec = NoNumber: no number; dec = 9: Number.toString()), then post
Txt(pre, idx, num, dec, post) ==
    [pre |-> pre, idx |-> idx, num |-> num, dec |-> dec, post |-> post]
Str(s) == Txt(s, NoNumber, 0, NoNumber, "")
Num(pre, v, d, post) ==
    Txt(pre, NoNumber, IF d = 9 THEN v ELSE toFixed(v, d), d, post)

Marker(kind, name) ==
    [kind |-> kind, layer |-> "", color |-> 0, lineweight |-> 0,
     x1 |-> 0, y1 |-> 0, x2 |-> 0, y2 |-> 0,
     height |-> 0, text |-> Str(name), rotation |-> 0,
     by |-> "generateDWG", at |-> 0, part |-> "marker"]

SectionStart == <<Marker("SECTION", "ENTITIES")>>
Terminator == <<Marker("ENDSEC", ""), Marker("EOF", "")>>

\* lineweight is given in hundredths: Math.round(lineweight * 100)
drawLine(g, x1, y1, x2, y2, layer, color, lineweight, by, at, part) ==
    LET p1 == applySkew(g, x1, y1)
        p2 == applySkew(g, x2, y2)
    IN  [kind |-> "LINE", layer |-> layer, color |-> color,
         lineweight |-> lineweight,
         x1 |-> toFixed(p1.x, 2), y1 |-> toFixed(p1.y, 2),
         x2 |-> toFixed(p2.x, 2), y2 |-> toFixed(p2.y, 2),
         height |-> 0, text |-> Str(""), rotation |-> 0,
         by |-> by, at |-> at, part |-> part]

\* height is given in hundredths (height.toFixed(2)); angle in degrees
drawText(g, x, y, text, height, layer, color, angle, by, at, part) ==
    LET pos == applySkew(g, x, y)
        rotation == angle + g.parameters.skew
    IN  [kind |-> "TEXT", layer |-> layer, color |-> color, lineweight |-> 0,
         x1 |-> toFixed(pos.x, 2), y1 |-> toFixed(pos.y, 2),
         x2 |-> 0, y2 |-> 0,
         height |-> height, text |-> text, rotation |-> rotation,
         by |-> by, at |-> at, part |-> part]

applyTextStyle(g) ==
    <<[kind |-> "STYLE", layer |-> "", color |-> 0, lineweight |-> 0,
       x1 |-> 0, y1 |-> 0, x2 |-> 0, y2 |-> 0,
       height |-> 0, text |-> Str("Arial"), rotation |-> 0,
       by |-> "applyTextStyle", at |-> 0, part |-> "style"]>>

----------------------------------------------------------------------------
(* DWGGenerator: grid *)

\* the values of  for (v = Math.ceil(from / incr) * incr; v <= to; v += incr)
GridValues(from, to, incr) ==
    LET v0 == Ceil(from, incr) * incr
        n == IF v0 > to THEN 0 ELSE (to - v0) \div incr + 1
    IN  [i \in 1..n |-> v0 + (i - 1) * incr]

\* the loops of drawGrid taken one iteration at a time: the first value of
\* the loop variable and its increment (and a variant that steps by half)
gridLoopStart(from, incr) == Ceil(from, incr) * incr

gridLoopNextHalved(v, incr) == v + incr \div 2

gridLoopNext(v, incr) == v + incr

drawGrid(g) ==
    LET p == g.parameters
        xs == GridValues(p.left, p.right, p.xincr)
        ys == GridValues(p.datum, p.toprl, p.yincr)
        vertical(x) ==
            <<drawLine(g, x, p.datum - M(10), x, p.toprl + M(5),
                       "GRID", 8, 15, "drawGrid", x, "vertical")>>
            \o (IF x > p.left /\ x < p.right
                THEN <<drawText(g, x, p.datum - M(2), Num("", x, 9, ""), 180,
                                "DIMENSIONS", 7, 0, "drawGrid", x, "chainage")>>
                ELSE <<>>)
        horizontal(y) ==
            <<drawLine(g, p.left - M(5), y, p.right + M(5), y,
                       "GRID", 8, 15, "drawGrid", y, "horizontal")>>
            \o (IF y > p.datum
                THEN <<drawText(g, p.left - M(2), y, Num("", y, 9, ""), 180,
                                "DIMENSIONS", 7, 90, "drawGrid", y, "level")>>
                ELSE <<>>)
    IN  Cat([i \in 1..Len(xs) |-> vertical(xs[i])])
        \o Cat([i \in 1..Len(ys) |-> horizontal(ys[i])])

----------------------------------------------------------------------------
(* DWGGenerator: the simple bridge pass *)

nominalSpan == 30

drawPier(g, chainage, deckLevel, datum) ==
    LET pierWidth == Dm(18)
        capWidth == Dm(22)
        capHeight == Dm(5)
        foundationLevel == datum - M(3)
        foundationWidth == Dm(35)
        foundationDepth == Dm(25)
        capLeft == chainage - capWidth \div 2
        capRight == chainage + capWidth \div 2
        capTop == deckLevel - Dm(2)
        capBottom == capTop - capHeight
        pierLeft == chainage - pierWidth \div 2
        pierRight == chainage + pierWidth \div 2
        foundLeft == chainage - foundationWidth \div 2
        foundRight == chainage + foundationWidth \div 2
        foundTop == foundationLevel
        foundBottom == foundationLevel - foundationDepth
        L(x1, y1, x2, y2, layer, color, lw, part) ==
            drawLine(g, x1, y1, x2, y2, layer, color, lw, "drawPier", chainage,
                     part)
    IN  <<L(capLeft, capTop, capRight, capTop, "PIER_CAP", 3, 70, "cap"),
          L(capLeft, capBottom, capRight, capBottom, "PIER_CAP", 3, 70, "cap"),
          L(capLeft, capTop, capLeft, capBottom, "PIER_CAP", 3, 70, "cap"),
          L(capRight, capTop, capRight, capBottom, "PIER_CAP", 3, 70, "cap"),
          L(pierLeft, capBottom, pierLeft, foundationLevel, "PIER_STEM", 4, 60, "stem"),
          L(pierRight, capBottom, pierRight, foundationLevel, "PIER_STEM", 4, 60, "stem"),
          L(foundLeft, foundTop, foundRight, foundTop, "FOUNDATION", 6, 80, "footing"),
          L(foundLeft, foundBottom, foundRight, foundBottom, "FOUNDATION", 6, 80, "footing"),
          L(foundLeft, foundTop, foundLeft, foundBottom, "FOUNDATION", 6, 80, "footing"),
          L(foundRight, foundTop, foundRight, foundBottom, "FOUNDATION", 6, 80, "footing"),
          drawText(g, chainage + M(1), (capTop + capBottom) \div 2,
                   Str("2.2m"), 150, "DIMENSIONS", 7, 0, "drawPier", chainage,
                   "label"),
          drawText(g, chainage + M(2), (foundTop + foundBottom) \div 2,
                   Str("3.5m"), 120, "DIMENSIONS", 7, 0, "drawPier", chainage,
                   "label")>>

drawAbutment(g, chainage, deckLevel, datum, side) ==
    LET abutmentWidth == Dm(25)
        abutmentHeight == deckLevel - datum
        direction == IF side = "LEFT" THEN 0 - 1 ELSE 1
        abutLeft == IF side = "LEFT" THEN chainage - abutmentWidth ELSE chainage
        abutRight == IF side = "LEFT" THEN chainage ELSE chainage + abutmentWidth
        L(x1, y1, x2, y2) ==
            drawLine(g, x1, y1, x2, y2, "ABUTMENT", 5, 70, "drawAbutment",
                     chainage, "wall")
    IN  <<L(abutLeft, datum, abutRight, datum),
          L(abutLeft, deckLevel, abutRight, deckLevel),
          L(abutLeft, datum, abutLeft, deckLevel),
          L(abutRight, datum, abutRight, deckLevel),
          drawText(g, chainage + direction * Dm(15), (datum + deckLevel) \div 2,
                   Num("", abutmentHeight, 1, "m"), 120, "DIMENSIONS", 7, 90,
                   "drawAbutment", chainage, "label")>>

addSpanDimensions(g, left, right, level, nspan, spanLength) ==
    LET totalLength == right - left
        span(i) ==
            LET spanStart == left + spanLength * i
                spanEnd == left + spanLength * (i + 1)
                spanCenter == (spanStart + spanEnd) \div 2
            IN  drawText(g, spanCenter, level - M(1),
                         Txt("Span ", i + 1, toFixed(spanLength, 0), 0, "m"),
                         150, "DIMENSIONS", 7, 0, "addSpanDimensions", i + 1,
                         "span")
    IN  <<drawText(g, (left + right) \div 2, level,
                   Num("Total: ", totalLength, 0, "m"), 200, "DIMENSIONS", 1, 0,
                   "addSpanDimensions", 0, "total")>>
        \o [k \in 1..nspan |-> span(k - 1)]

\* a variant of drawBridge's loop that steps by the nominal span
drawBridgePierChainagesNominal(p) ==
    LET bridgeLength == p.right - p.left
        nspan == Max(1, Floor(bridgeLength, M(nominalSpan)))
    IN  [i \in 1..(nspan - 1) |-> p.left + M(nominalSpan) * i]

\* a variant of drawBridge's loop that spreads the piers over nspan - 1 spans
drawBridgePierChainagesOverPiers(p) ==
    LET bridgeLength == p.right - p.left
        nspan == Max(1, Floor(bridgeLength, M(nominalSpan)))
        spanLength == bridgeLength \div Max(1, nspan - 1)
    IN  [i \in 1..(nspan - 1) |-> p.left + spanLength * i]

\* the pier chainages of drawBridge's loop  for (i = 1; i < nspan; i++)
drawBridgePierChainages(p) ==
    LET bridgeLength == p.right - p.left
        nspan == Max(1, Floor(bridgeLength, M(nominalSpan)))
        spanLength == bridgeLength \div nspan
    IN  [i \in 1..(nspan - 1) |-> p.left + spanLength * i]

drawBridge(g) ==
    LET p == g.parameters
        left == p.left
        right == p.right
        bridgeLength == right - left
        nspan == Max(1, Floor(bridgeLength, M(nominalSpan)))
        spanLength == bridgeLength \div nspan
        deckLevel == p.toprl - Dm(15)
        deckThickness == Dm(8)
        parapetHeight == Dm(12)
        piers == drawBridgePierChainages(p)
        D(x1, y1, x2, y2) ==
            drawLine(g, x1, y1, x2, y2, "BRIDGE_DECK", 1, 80, "drawBridge", 0,
                     "deck")
    IN  <<D(left, deckLevel, right, deckLevel),
          D(left, deckLevel - deckThickness, right, deckLevel - deckThickness),
          D(left, deckLevel, left, deckLevel - deckThickness),
          D(right, deckLevel, right, deckLevel - deckThickness)>>
        \o Cat([i \in 1..Len(piers) |-> drawPier(g, piers[i], deckLevel, p.datum)])
        \o drawAbutment(g, left, deckLevel, p.datum, "LEFT")
        \o drawAbutment(g, right, deckLevel, p.datum, "RIGHT")
        \o <<drawLine(g, left, deckLevel + parapetHeight, right,
                      deckLevel + parapetHeight, "PARAPET", 2, 50, "drawBridge", 0,
                      "parapet")>>
        \o addSpanDimensions(g, left, right, deckLevel + M(3), nspan, spanLength)

----------------------------------------------------------------------------
(* DWGGenerator: cross-section overlay added by the caller *)

formatChainage(chainage) ==
    LET km == Floor(chainage, M(1000))
        m == Rem(chainage, M(1000))
    IN  Txt("", km, toFixed(m, 0), 0, "")

\* what addCrossSection pushes onto the list it is given
addCrossSection(g, crossSectionData) ==
    IF Len(crossSectionData) < 2 THEN <<>>
    ELSE
      LET p == g.parameters
          segment(i) ==
              LET prev == crossSectionData[i - 1]
                  curr == crossSectionData[i]
              IN  drawLine(g, prev.chainage, prev.level, curr.chainage, curr.level,
                           "CROSS_SECTION", 6, 60, "addCrossSection",
                           curr.chainage, "profile")
          markers(point) ==
              LET chainageRemainder == Rem(point.chainage - p.left, p.xincr)
              IN  IF Abs(chainageRemainder) > Cm(1)
                  THEN <<drawText(g, point.chainage + Dm(5), point.level - M(1),
                                  formatChainage(point.chainage), 180,
                                  "DIMENSIONS", 7, 90, "addCrossSection",
                                  point.chainage, "chainage"),
                         drawText(g, point.chainage + Dm(5), point.level - M(2),
                                  Num("", point.level, 3, ""), 180,
                                  "DIMENSIONS", 7, 90, "addCrossSection",
                                  point.chainage, "level")>>
                  ELSE <<>>
      IN  [k \in 1..(Len(crossSectionData) - 1) |-> segment(k + 1)]
          \o Cat([k \in 1..Len(crossSectionData) |-> markers(crossSectionData[k])])

----------------------------------------------------------------------------
(* DWGGenerator: dimension annotations *)

\* the pier chainages of drawDimensions' loop of ticks
drawDimensionsPierChainages(p) ==
    LET bridgeLength == p.right - p.left
        pierCount == Max(0, Floor(bridgeLength, M(nominalSpan)) - 1)
        spacing == bridgeLength \div (pierCount + 1)
    IN  IF pierCount > 0 THEN [i \in 1..pierCount |-> p.left + spacing * i]
        ELSE <<>>

drawDimensions(g) ==
    LET p == g.parameters
        left == p.left
        right == p.right
        datum == p.datum
        bridgeLength == right - left
        deckY == p.toprl
        parapetHeight == Dm(12)
        dimOffset == M(2)
        xs == drawDimensionsPierChainages(p)
        prev(i) == IF i = 1 THEN left ELSE xs[i - 1]
        L(x1, y1, x2, y2, at, part) ==
            drawLine(g, x1, y1, x2, y2, "DIMENSIONS", 3, 15, "drawDimensions", at,
                     part)
        T(x, y, text, angle, at, part) ==
            drawText(g, x, y, text, 200, "DIMENSIONS", 3, angle,
                     "drawDimensions", at, part)
        tick(i) ==
            <<L(xs[i], deckY - Dm(5), xs[i], deckY + Dm(5), xs[i], "tick"),
              T((prev(i) + xs[i]) \div 2, deckY + dimOffset - Dm(5),
                Num("", xs[i] - prev(i), 0, " m"), 0, xs[i], "span")>>
    IN  <<L(left, deckY + dimOffset, right, deckY + dimOffset, left, "overall"),
          drawText(g, (left + right) \div 2, deckY + dimOffset + Dm(5),
                   Num("L = ", bridgeLength, 0, " m"), 250, "DIMENSIONS", 3, 0,
                   "drawDimensions", left, "overall"),
          L(left - M(1), datum, left - M(1), deckY + parapetHeight, left,
            "height"),
          T(left - Dm(8), (datum + deckY) \div 2,
            Num("", deckY - datum, 2, " m"), 90, left, "height"),
          T(left - Dm(12), (datum + deckY + parapetHeight) \div 2,
            Num("H ", deckY + parapetHeight - datum, 2, " m"), 90, left,
            "height")>>
        \o (IF Len(xs) > 0
            THEN Cat([i \in 1..Len(xs) |-> tick(i)])
                 \o <<T((xs[Len(xs)] + right) \div 2, deckY + dimOffset - Dm(5),
                        Num("", right - xs[Len(xs)], 0, " m"), 0, right,
                        "span")>>
            ELSE <<>>)

----------------------------------------------------------------------------
(* DWGGenerator: the detailed passes *)

\* a variant of drawDetailedPiers' loop that divides the length by pierCount
drawDetailedPiersChainagesByCount(p) ==
    LET bridgeLength == p.right - p.left
        pierCount == Max(0, Floor(bridgeLength, M(nominalSpan)) - 1)
        spacing == bridgeLength \div Max(1, pierCount)
    IN  IF pierCount <= 0 THEN <<>>
        ELSE [i \in 1..pierCount |-> p.left + spacing * i]

\* the pier chainages of drawDetailedPiers' loop
drawDetailedPiersChainages(p) ==
    LET bridgeLength == p.right - p.left
        pierCount == Max(0, Floor(bridgeLength, M(nominalSpan)) - 1)
        spacing == bridgeLength \div (pierCount + 1)
    IN  IF pierCount <= 0 THEN <<>>
        ELSE [i \in 1..pierCount |-> p.left + spacing * i]

drawDetailedPiers(g) ==
    LET p == g.parameters
        deckY == p.toprl
        capTop == deckY - Dm(5)
        capBottom == capTop - Dm(8)
        capWidth == Dm(35)
        pierTopWidth == Dm(18)
        batterRatio == 8
        stemHeight == M(6)
        footingTop == p.datum - M(1)
        footingDepth == M(2)
        footingWidth == M(4)
        xcs == drawDetailedPiersChainages(p)
        pier(i) ==
            LET xc == xcs[i]
                capHalf == capWidth \div 2
                halfTop == pierTopWidth \div 2
                stemBottomY == Max(footingTop, capBottom - stemHeight)
                vertical == capBottom - stemBottomY
                batterOffset == vertical \div batterRatio
                x1 == xc - halfTop - batterOffset
                x2 == xc + halfTop + batterOffset
                yTop == capBottom
                yBot == stemBottomY
                footHalf == footingWidth \div 2
                ftTop == footingTop
                ftBot == footingTop - footingDepth
                C(a, b, c, d) ==
                    drawLine(g, a, b, c, d, "PIER", 6, 25, "drawDetailedPiers", xc,
                             "cap")
                P(a, b, c, d) ==
                    drawLine(g, a, b, c, d, "PIER", 6, 25, "drawDetailedPiers", xc,
                             "stem")
                F(a, b, c, d) ==
                    drawLine(g, a, b, c, d, "FOUNDATION", 94, 25,
                             "drawDetailedPiers", xc, "footing")
            IN  <<C(xc - capHalf, capTop, xc + capHalf, capTop),
                  C(xc + capHalf, capTop, xc + capHalf, capBottom),
                  C(xc + capHalf, capBottom, xc - capHalf, capBottom),
                  C(xc - capHalf, capBottom, xc - capHalf, capTop),
                  P(xc - halfTop, yTop, xc + halfTop, yTop),
                  P(xc + halfTop, yTop, x2, yBot),
                  P(x2, yBot, x1, yBot),
                  P(x1, yBot, xc - halfTop, yTop),
                  F(xc - footHalf, ftTop, xc + footHalf, ftTop),
                  F(xc + footHalf, ftTop, xc + footHalf, ftBot),
                  F(xc + footHalf, ftBot, xc - footHalf, ftBot),
                  F(xc - footHalf, ftBot, xc - footHalf, ftTop),
                  drawText(g, xc, capTop + Dm(3), Txt("PIER ", i, 0, NoNumber, ""),
                           200, "TEXT", 7, 0, "drawDetailedPiers", xc, "label")>>
    IN  Cat([i \in 1..Len(xcs) |-> pier(i)])

drawDetailedAbutments(g) ==
    LET p == g.parameters
        deckY == p.toprl
        capTop == deckY - Dm(4)
        capBottom == capTop - Dm(6)
        faceStep1 == capBottom - Dm(12)
        faceStep2 == faceStep1 - M(1)
        dirtWallThickness == Dm(5)
        offset1 == Dm(12)
        offset2 == Dm(8)
        footProj == M(1)
        footThickness == Dm(8)
        drawAbutmentAt(xEdge, isLeft) ==
            LET sign == IF isLeft THEN 0 - 1 ELSE 1
                x0 == xEdge
                x1 == x0 + sign * dirtWallThickness
                x2 == x1 + sign * offset1
                x3 == x2 + sign * offset2
                y0 == capTop
                y1 == capBottom
                y2 == faceStep1
                y3 == faceStep2
                footTop == y3 - Dm(5)
                footBot == footTop - footThickness
                footIn == x3
                footOut == x3 + sign * (footProj + dirtWallThickness)
                A(a, b, c, d) ==
                    drawLine(g, a, b, c, d, "ABUTMENT", 5, 25,
                             "drawDetailedAbutments", xEdge, "wall")
                F(a, b, c, d) ==
                    drawLine(g, a, b, c, d, "FOUNDATION", 94, 25,
                             "drawDetailedAbutments", xEdge, "footing")
            IN  <<A(x0, y0, x0, y1), A(x0, y1, x1, y1),
                  A(x1, y1, x1, y0), A(x1, y0, x0, y0),
                  A(x1, y1, x2, y2), A(x2, y2, x3, y3),
                  A(x3, y3, x3, footTop),
                  F(footIn, footTop, footOut, footTop),
                  F(footOut, footTop, footOut, footBot),
                  F(footOut, footBot, footIn, footBot),
                  F(footIn, footBot, footIn, footTop),
                  drawText(g, x1 + sign * Dm(6), y1 + Dm(3),
                           Str(IF isLeft THEN "ABUT L" ELSE "ABUT R"),
                           200, "TEXT", 7, 0, "drawDetailedAbutments", xEdge,
                           "label")>>
    IN  drawAbutmentAt(p.left, TRUE) \o drawAbutmentAt(p.right, FALSE)

drawAbutmentDimensions(g) ==
    LET p == g.parameters
        deckY == p.toprl
        capTop == deckY - Dm(4)
        capBottom == capTop - Dm(6)
        faceStep1 == capBottom - Dm(12)
        faceStep2 == faceStep1 - M(1)
        footTop == faceStep2 - Dm(5)
        footBot == footTop - Dm(8)
        annotateAt(x, isLeft) ==
            LET sign == IF isLeft THEN 0 - 1 ELSE 1
                xDim == x + sign * M(2)
                L(a, b, c, d) ==
                    drawLine(g, a, b, c, d, "DIMENSIONS", 3, 15,
                             "drawAbutmentDimensions", x, "dimension")
                T(a, b, text) ==
                    drawText(g, a, b, text, 200, "DIMENSIONS", 3, 90,
                             "drawAbutmentDimensions", x, "dimension")
            IN  <<L(xDim, capTop, xDim, capBottom),
                  T(xDim + sign * Dm(2), (capTop + capBottom) \div 2,
                    Num("Cap ", Abs(capTop - capBottom), 2, " m")),
                  L(xDim + sign * Dm(6), capBottom, xDim + sign * Dm(6), faceStep2),
                  T(xDim + sign * Dm(8), (capBottom + faceStep2) \div 2,
                    Num("", Abs(capBottom - faceStep2), 2, " m")),
                  L(xDim + sign * Dm(12), footTop, xDim + sign * Dm(12), footBot),
                  T(xDim + sign * Dm(14), (footTop + footBot) \div 2,
                    Num("Footing ", Abs(footTop - footBot), 2, " m"))>>
    IN  annotateAt(p.left, TRUE) \o annotateAt(p.right, FALSE)

----------------------------------------------------------------------------
(* DWGGenerator: cross-section pass over parameters.crossSection *)

drawCrossSection(g) ==
    LET p == g.parameters
        crossSection == p.crossSection
        datum == p.datum
        d4 == M(4)
        d5 == Dm(38)
        d6 == Dm(22)
        d7 == Dm(18)
        vertex(pt) ==
            LET x == pt.x
                y == pt.y
                b == Rem(x - p.left, p.xincr)
                G(x1, y1, x2, y2, part) ==
                    drawLine(g, x1, y1, x2, y2, "CS_GRID", 8, 15,
                             "drawCrossSection", x, part)
            IN  <<G(x, datum - M(2), x, datum, "projection")>>
                \o (IF Abs(b) > 0
                    THEN <<drawText(g, x, datum - d4, Num("", x, 3, ""), 180,
                                    "DIMENSIONS", 7, 90, "drawCrossSection", x,
                                    "chainage"),
                           G(x, datum - d4, x, datum - d5, "tick"),
                           G(x, datum - d6, x, datum - d7, "tick")>>
                    ELSE <<>>)
                \o <<drawLine(g, x, datum - M(2), x, y, "CS_PROFILE", 7, 25,
                              "drawCrossSection", x, "vertical")>>
        connect(i) ==
            drawLine(g, crossSection[i - 1].x, crossSection[i - 1].y,
                     crossSection[i].x, crossSection[i].y, "CS_PROFILE", 7, 35,
                     "drawCrossSection", crossSection[i].x, "profile")
    IN  IF Len(crossSection) = 0 THEN <<>>
        ELSE Cat([k \in 1..Len(crossSection) |-> vertex(crossSection[k])])
             \o [k \in 1..(Len(crossSection) - 1) |-> connect(k + 1)]

----------------------------------------------------------------------------
(* DWGGenerator: one run *)

\* a variant of generateDWG that annotates before it draws the structure
generateDWGDimensionsFirst(g, options) ==
    LET self == [g EXCEPT !.scale = options.scale]
    IN  [self |-> self,
         commands |->
            SectionStart
            \o (IF options.useTextStyle THEN applyTextStyle(self) ELSE <<>>)
            \o (IF options.includeGrid THEN drawGrid(self) ELSE <<>>)
            \o (IF options.includeDimensions THEN drawDimensions(self) ELSE <<>>)
            \o (IF options.includeDetailedPier THEN drawDetailedPiers(self)
                ELSE drawBridge(self))
            \o (IF options.includeDetailedAbutment
                THEN drawDetailedAbutments(self)
                     \o (IF options.includeDimensions
                         THEN drawAbutmentDimensions(self) ELSE <<>>)
                ELSE <<>>)
            \o (IF options.includeCrossSection THEN drawCrossSection(self)
                ELSE <<>>)
            \o Terminator]

\* generateDWG sets this.scale, then emits the passes in program order;
\* self is the instance after the call
generateDWG(g, options) ==
    LET self == [g EXCEPT !.scale = options.scale]
    IN  [self |-> self,
         commands |->
            SectionStart
            \o (IF options.useTextStyle THEN applyTextStyle(self) ELSE <<>>)
            \o (IF options.includeGrid THEN drawGrid(self) ELSE <<>>)
            \o (IF options.includeDetailedPier THEN drawDetailedPiers(self)
                ELSE drawBridge(self))
            \o (IF options.includeDetailedAbutment
                THEN drawDetailedAbutments(self)
                     \o (IF options.includeDimensions
                         THEN drawAbutmentDimensions(self) ELSE <<>>)
                ELSE <<>>)
            \o (IF options.includeDimensions THEN drawDimensions(self) ELSE <<>>)
            \o (IF options.includeCrossSection THEN drawCrossSection(self)
                ELSE <<>>)
            \o Terminator]

\* the module-level generateBridgeDWG: a new generator, one run, then the
\* caller's cross-section pushed onto the returned list (the constant layer
\* table and the dimensions summary it also returns are not modelled)
generateBridgeDWG(parameters, options, crossSectionData) ==
    LET generator == NewDWGGenerator(parameters)
        result == generateDWG(generator, options)
    IN  [self |-> result.self,
         commands |->
            IF Len(crossSectionData) > 0
            THEN result.commands \o addCrossSection(result.self, crossSectionData)
            ELSE result.commands]

----------------------------------------------------------------------------
(* BridgeCalculator *)

calculateConstants(params) ==
    LET s == SinDeg(params.skew)
        c == CosDeg(params.skew)
    IN  [vvs |-> 1000, hhs |-> 1000,
         skew1 |-> params.skew * 174532,        \* in units of 1e-7 radian
         s |-> s, c |-> c,
         tn |-> (s * Q) \div c,
         sc |-> (params.scale1 * Q) \div params.scale2]

NewBridgeCalculator(parameters) ==
    [params |-> parameters, constants |-> calculateConstants(parameters)]

calc_vpos(c, a) == (a - c.params.datum) * 5

calc_hpos(c, a) == (a - c.params.left) * 2

Pt(x, y) == [x |-> x, y |-> y]

generateBridgeElevation(c) ==
    LET left == c.params.left
        right == c.params.right
        datum == c.params.datum
        H(a) == calc_hpos(c, a)
        V(a) == calc_vpos(c, a)
        bridgeLength == right - left
        deckLevel == c.params.toprl - Dm(15)
        foundationLevel == datum - M(3)
        bearingLevel == deckLevel - Dm(5)
        deckThickness == Dm(8)
        parapetHeight == Dm(12)
        spanLength == M(30)
        pierCount == Max(0, Floor(bridgeLength, spanLength) - 1)
        pierWidth == Dm(18)
        actualSpacing == bridgeLength \div (pierCount + 1)
        pierAt(i) ==
            LET pierChainage == left + actualSpacing * i
                halfWidth == pierWidth \div 2
            IN  [points |-> <<Pt(H(pierChainage - halfWidth), V(foundationLevel)),
                              Pt(H(pierChainage + halfWidth), V(foundationLevel)),
                              Pt(H(pierChainage + halfWidth), V(bearingLevel)),
                              Pt(H(pierChainage - halfWidth), V(bearingLevel))>>,
                 width |-> pierWidth,
                 height |-> bearingLevel - foundationLevel,
                 chainage |-> pierChainage]
        piers == IF pierCount > 0 THEN [i \in 1..pierCount |-> pierAt(i)] ELSE <<>>
        abutmentWidth == Dm(25)
        abutmentHeight == bearingLevel - datum
        foundationWidth == pierWidth + M(1)
        foundationDepth == M(2)
        foundationOf(pier) ==
            LET pierCenterX == (pier.points[1].x + pier.points[2].x) \div 2
                halfFoundationWidth == foundationWidth \div 2
            IN  [points |->
                   <<Pt(pierCenterX - H(halfFoundationWidth), V(foundationLevel)),
                     Pt(pierCenterX + H(halfFoundationWidth), V(foundationLevel)),
                     Pt(pierCenterX + H(halfFoundationWidth),
                        V(foundationLevel - foundationDepth)),
                     Pt(pierCenterX - H(halfFoundationWidth),
                        V(foundationLevel - foundationDepth))>>,
                 width |-> foundationWidth,
                 depth |-> foundationDepth]
        spanDimension(i) ==
            LET prevChainage == IF i = 0 THEN left ELSE piers[i].chainage
                currentChainage ==
                    IF i < Len(piers) THEN piers[i + 1].chainage ELSE right
            IN  [start |-> Pt(H(prevChainage), V(deckLevel) + M(20)),
                 end |-> Pt(H(currentChainage), V(deckLevel) + M(20)),
                 value |-> Num("", currentChainage - prevChainage, 0, "m"),
                 level |-> 0]
    IN  [deck |-> <<Pt(H(left), V(deckLevel)), Pt(H(right), V(deckLevel)),
                    Pt(H(right), V(deckLevel - deckThickness)),
                    Pt(H(left), V(deckLevel - deckThickness))>>,
         superstructure |-> <<Pt(H(left), V(deckLevel + parapetHeight)),
                              Pt(H(right), V(deckLevel + parapetHeight))>>,
         piers |-> piers,
         abutments |->
            <<[points |-> <<Pt(H(left - abutmentWidth), V(datum)),
                            Pt(H(left), V(datum)),
                            Pt(H(left), V(bearingLevel)),
                            Pt(H(left - abutmentWidth), V(bearingLevel))>>,
               width |-> abutmentWidth, height |-> abutmentHeight],
              [points |-> <<Pt(H(right), V(datum)),
                            Pt(H(right + abutmentWidth), V(datum)),
                            Pt(H(right + abutmentWidth), V(bearingLevel)),
                            Pt(H(right), V(bearingLevel))>>,
               width |-> abutmentWidth, height |-> abutmentHeight]>>,
         foundations |-> [i \in 1..Len(piers) |-> foundationOf(piers[i])],
         dimensions |->
            <<[start |-> Pt(H(left), V(deckLevel) + M(40)),
               end |-> Pt(H(right), V(deckLevel) + M(40)),
               value |-> Num("L = ", bridgeLength, 0, "m"), level |-> 1],
              [start |-> Pt(H(left) - M(30), V(datum)),
               end |-> Pt(H(left) - M(30), V(deckLevel)),
               value |-> Num("", deckLevel - datum, 2, "m"), level |-> 2],
              [start |-> Pt(H(left) - M(60), V(foundationLevel)),
               end |-> Pt(H(left) - M(60), V(deckLevel + parapetHeight)),
               value |-> Num("H = ", deckLevel + parapetHeight - foundationLevel,
                             1, "m"),
               level |-> 3]>>
            \o (IF Len(piers) > 0
                THEN [k \in 1..(Len(piers) + 1) |-> spanDimension(k - 1)]
                ELSE <<>>)]

\* a variant of the instance a call of generateBridgeElevation leaves behind:
\* it moves the left edge of the stored parameters to the first pier
instanceAfterElevationShifted(c) ==
    LET piers == generateBridgeElevation(c).piers
    IN  [c EXCEPT !.params.left =
            IF Len(piers) > 0 THEN piers[1].chainage ELSE c.params.left + M(1)]

\* the instance a call of generateBridgeElevation leaves behind: the method
\* builds its result in local arrays and assigns no field of this
instanceAfterElevation(c) == c

\* a variant of generateBridgePlan that lists the piers from the right bank
generateBridgePlanFromRight(c) ==
    LET piers == generateBridgeElevation(c).piers
        n == Len(piers)
    IN  [piersInPlan |->
            [i \in 1..n |-> [points |-> piers[n + 1 - i].points,
                             chainage |-> piers[n + 1 - i].chainage]]]

generateBridgePlan(c) ==
    LET left == c.params.left
        right == c.params.right
        datum == c.params.datum
        H(a) == calc_hpos(c, a)
        V(a) == calc_vpos(c, a)
        bridgeWidth == M(12)
        roadwayWidth == Dm(75)
        halfWidth == bridgeWidth \div 2
        halfRoadway == roadwayWidth \div 2
        elevationData == generateBridgeElevation(c)
        pierLength == M(8)
        halfLength == pierLength \div 2
        pierInPlan(pier) ==
            [points |-> <<Pt(pier.points[1].x, V(datum + halfLength)),
                          Pt(pier.points[2].x, V(datum + halfLength)),
                          Pt(pier.points[2].x, V(datum - halfLength)),
                          Pt(pier.points[1].x, V(datum - halfLength))>>,
             chainage |-> pier.chainage]
    IN  [deckOutline |-> <<Pt(H(left), V(datum + halfWidth)),
                           Pt(H(right), V(datum + halfWidth)),
                           Pt(H(right), V(datum - halfWidth)),
                           Pt(H(left), V(datum - halfWidth))>>,
         centerline |-> <<Pt(H(left), V(datum)), Pt(H(right), V(datum))>>,
         roadwayMarking |-> <<Pt(H(left), V(datum + halfRoadway)),
                              Pt(H(right), V(datum + halfRoadway)),
                              Pt(H(right), V(datum - halfRoadway)),
                              Pt(H(left), V(datum - halfRoadway))>>,
         piersInPlan |->
            [i \in 1..Len(elevationData.piers) |->
                pierInPlan(elevationData.piers[i])],
         abutmentsInPlan |->
            <<[points |-> <<Pt(H(left - Dm(25)), V(datum + halfWidth)),
                            Pt(H(left), V(datum + halfWidth)),
                            Pt(H(left), V(datum - halfWidth)),
                            Pt(H(left - Dm(25)), V(datum - halfWidth))>>],
              [points |-> <<Pt(H(right), V(datum + halfWidth)),
                            Pt(H(right + Dm(25)), V(datum + halfWidth)),
                            Pt(H(right + Dm(25)), V(datum - halfWidth)),
                            Pt(H(right), V(datum - halfWidth))>>]>>,
         dimensions |->
            <<[start |-> Pt(H(left), V(datum + halfWidth + M(20))),
               end |-> Pt(H(right), V(datum + halfWidth + M(20))),
               value |-> Num("", right - left, 0, "m")],
              [start |-> Pt(H(left) - M(40), V(datum - halfWidth)),
               end |-> Pt(H(left) - M(40), V(datum + halfWidth)),
               value |-> Num("", bridgeWidth, 1, "m")]>>]

\* the skew = 0 shortcut and the general rotation of applySkewTransformation
rotate(point, s, c) ==
    [x |-> (point.x * c - point.y * s) \div Q,
     y |-> (point.x * s + point.y * c) \div Q]

applySkewTransformation(c, point) ==
    IF c.params.skew = 0 THEN point
    ELSE rotate(point, c.constants.s, c.constants.c)

\* generateLayoutPoints: the axes, the chainage and level marks and the two
\* captions of the layout
generateLayoutPoints(c) ==
    LET left == c.params.left
        d1 == M(20)
        pta1 == Pt(0, 0)
        pta2 == Pt(calc_hpos(c, c.params.right), 0)
        ptd1 == Pt(0, calc_vpos(c, c.params.toprl))
        noh == c.params.right - c.params.left
        xSteps == Floor(noh, c.params.xincr)
        nov == c.params.toprl - c.params.datum
        ySteps == Floor(nov, c.params.yincr)
        xMark(i) ==
            LET ch == left + i * c.params.xincr
            IN  [position |-> Pt(calc_hpos(c, ch), 0),
                 label |-> Txt("", Floor(ch, M(1000)),
                               toFixed(Rem(ch, M(1000)), 0), 0, ""),
                 at |-> ch]
        yMark(i) ==
            LET level == c.params.datum + i * c.params.yincr
            IN  [position |-> Pt(0, calc_vpos(c, level)),
                 label |-> Num("", level, 3, ""),
                 at |-> level]
    IN  [axes |-> [xAxis |-> <<pta1, pta2>>,
                   yAxis |-> <<Pt(0, 0 - d1 * 2), ptd1>>],
         grid |-> [xMarks |-> [i \in 1..xSteps |-> xMark(i)],
                   yMarks |-> [j \in 1..(ySteps + 1) |-> yMark(j - 1)]],
         labels |-> <<[position |-> Pt(0 - M(50), 0 - M(10)),
                       text |-> Str("BED LEVEL"), angle |-> 0],
                      [position |-> Pt(0 - M(50), 0 - M(30)),
                       text |-> Str("CHAINAGE"), angle |-> 0]>>]

\* the calculator's formatChainage: km+mmm
calc_formatChainage(chainage) ==
    LET km == Floor(chainage, M(1000))
        m == Rem(chainage, M(1000))
    IN  Txt("", km, toFixed(m, 0), 0, "")

generateCrossSection(c, crossSectionData) ==
    LET left == c.params.left
        xincr == c.params.xincr
        datum == c.params.datum
        yincr == c.params.yincr
        point(i) ==
            Pt(calc_hpos(c, crossSectionData[i].chainage),
               calc_vpos(c, crossSectionData[i].level))
        marker(i) ==
            LET pt == crossSectionData[i]
                chainageRemainder == Rem(pt.chainage - left, xincr)
            IN  IF Abs(chainageRemainder) > Cm(1)
                THEN <<[position |-> Pt(point(i).x + M(5), point(i).y - M(10)),
                        chainage |-> calc_formatChainage(pt.chainage),
                        level |-> Num("", pt.level, 3, ""),
                        at |-> pt.chainage]>>
                ELSE <<>>
        noh == c.params.right - left
        xSteps == Floor(noh, xincr)
        nov == c.params.toprl - datum
        ySteps == Floor(nov, yincr)
    IN  [points |-> [i \in 1..Len(crossSectionData) |-> point(i)],
         markers |-> Cat([i \in 1..Len(crossSectionData) |-> marker(i)]),
         gridLines |->
            [vertical |->
                [i \in 1..xSteps |->
                    [x |-> calc_hpos(c, left + i * xincr),
                     label |-> calc_formatChainage(left + i * xincr),
                     at |-> left + i * xincr]],
             horizontal |->
                [j \in 1..(ySteps + 1) |->
                    [y |-> calc_vpos(c, datum + (j - 1) * yincr),
                     label |-> Num("", datum + (j - 1) * yincr, 3, ""),
                     at |-> datum + (j - 1) * yincr]]]]

----------------------------------------------------------------------------
(* The parse operation: the serverless handler (api/bridge/parse.ts) and   *)
(* the Express route /api/bridge/parse.  An input file is a sequence of    *)
(* lines; a line is blank, a decimal number (its value in units of 1/Q),   *)
(* or some other text.  Parsed parameters are all in units of 1/Q.         *)

BlankLine == [kind |-> "blank", value |-> 0]
TextLine == [kind |-> "text", value |-> 0]
NumberLine(v) == [kind |-> "number", value |-> v]

InvalidMessage ==
    <<"Invalid scale1", "Invalid scale2", "Invalid skew", "Invalid datum",
      "Invalid toprl", "Invalid left", "Invalid right", "Invalid xincr",
      "Invalid yincr", "Invalid noch">>

\* inputData.trim().split('\n').map(l => l.trim()).filter(Boolean)
nonBlankLines(inputData) == SelectSeq(inputData, LAMBDA l : l.kind # "blank")

NaN == [nan |-> TRUE, n |-> 0]

\* parseFloat(v): the number written, NaN for other text
parseFloat(v) ==
    IF v.kind = "number" THEN [nan |-> FALSE, n |-> v.value] ELSE NaN

\* parseInt(v, 10): the digits before the decimal point, NaN for other text
parseInt(v) ==
    IF v.kind = "number"
    THEN [nan |-> FALSE,
          n |-> IF v.value >= 0 THEN (v.value \div Q) * Q
                ELSE 0 - (((0 - v.value) \div Q) * Q)]
    ELSE NaN

isInteger(n) == n % Q = 0

\* parseNum of the handler: thrown stands for  throw new Error(`Invalid ...`)
parseNum(v, isInt) ==
    LET n == IF isInt THEN parseInt(v) ELSE parseFloat(v)
    IN  [thrown |-> n.nan \/ (isInt /\ ~isInteger(n.n)), n |-> n.n]

\* parseNumericParam of the route
parseNumericParam(value, isInt) ==
    LET num == IF isInt THEN parseInt(value) ELSE parseFloat(value)
    IN  [thrown |-> num.nan \/ (isInt /\ ~isInteger(num.n)), n |-> num.n]

\* Array.prototype.sort((a, b) => a.chainage - b.chainage): stable
RECURSIVE insertByChainage(_, _)
insertByChainage(e, sorted) ==
    IF sorted = <<>> THEN <<e>>
    ELSE IF Head(sorted).chainage <= e.chainage
         THEN <<Head(sorted)>> \o insertByChainage(e, Tail(sorted))
         ELSE <<e>> \o sorted

RECURSIVE sortByChainage(_)
sortByChainage(s) ==
    IF s = <<>> THEN <<>>
    ELSE insertByChainage(s[Len(s)], sortByChainage(SubSeq(s, 1, Len(s) - 1)))

\* the first message of a list of <<condition, message>> checks whose
\* condition holds, "" when none does: the throw that ends the try block
RECURSIVE FirstThrown(_)
FirstThrown(checks) ==
    IF checks = <<>> THEN ""
    ELSE IF Head(checks)[1] THEN Head(checks)[2]
         ELSE FirstThrown(Tail(checks))

ErrorResponse(status, message) ==
    [status |-> status, success |-> FALSE, error |-> message,
     parameters |-> <<>>, crossSections |-> <<>>]

SuccessResponse(parameters, crossSections) ==
    [status |-> 200, success |-> TRUE, error |-> "",
     parameters |-> <<parameters>>, crossSections |-> crossSections]

\* api/bridge/parse.ts: handler(req, res); inputs are far below the 10 MB limit
handler(method, inputData) ==
    IF method # "POST" THEN ErrorResponse(405, "Method Not Allowed")
    ELSE IF inputData = <<>>
    THEN ErrorResponse(400, "Input data is required and must be a string")
    ELSE
      LET lines == nonBlankLines(inputData)
      IN  IF Len(lines) < 10
          THEN ErrorResponse(400, "Input file must contain at least 10 parameters")
          ELSE
            LET num(i) == parseNum(lines[i], i = 10)
                parameters ==
                    [scale1 |-> num(1).n, scale2 |-> num(2).n, skew |-> num(3).n,
                     datum |-> num(4).n, toprl |-> num(5).n, left |-> num(6).n,
                     right |-> num(7).n, xincr |-> num(8).n, yincr |-> num(9).n,
                     noch |-> num(10).n]
                npairs == (Len(lines) - 10) \div 2
                chainage(k) == parseNum(lines[9 + 2 * k], FALSE)
                level(k) == parseNum(lines[10 + 2 * k], FALSE)
                crossSections ==
                    [k \in 1..npairs |->
                        [chainage |-> chainage(k).n, level |-> level(k).n]]
                thrown ==
                    FirstThrown(
                        [i \in 1..10 |-> <<num(i).thrown, InvalidMessage[i]>>]
                        \o <<<<parameters.scale1 <= 0 \/ parameters.scale2 <= 0,
                               "Scale values must be positive">>,
                             <<parameters.xincr <= 0 \/ parameters.yincr <= 0,
                               "Increment values must be positive">>,
                             <<parameters.noch <= 0 \/ ~isInteger(parameters.noch),
                               "Number of chainages must be a positive integer">>,
                             <<parameters.right <= parameters.left,
                               "Right chainage must be greater than left chainage">>,
                             <<parameters.toprl <= parameters.datum,
                               "Top level must be greater than datum level">>>>
                        \o Cat([k \in 1..npairs |->
                                  <<<<chainage(k).thrown, "Invalid chainage">>,
                                    <<level(k).thrown, "Invalid level">>>>]))
            IN  IF thrown # "" THEN ErrorResponse(400, thrown)
                ELSE SuccessResponse(parameters, sortByChainage(crossSections))

\* shared/schema.ts: bridgeInputSchema.parse(value) throws a ZodError
bridgeInputSchemaRejects(value) ==
    \/ value.scale1 <= 0
    \/ value.scale2 <= 0
    \/ value.xincr <= 0
    \/ value.yincr <= 0
    \/ ~isInteger(value.noch)
    \/ value.noch <= 0

\* the Express route app.post("/api/bridge/parse", ...)
parseRoute(inputData) ==
    IF inputData = <<>>
    THEN ErrorResponse(400, "Input data is required and must be a string")
    ELSE
      LET lines == nonBlankLines(inputData)
      IN  IF Len(lines) < 10
          THEN ErrorResponse(400, "Input file must contain at least 10 parameters")
          ELSE
            LET num(i) == parseNumericParam(lines[i], i = 10)
                parameters ==
                    [scale1 |-> num(1).n, scale2 |-> num(2).n, skew |-> num(3).n,
                     datum |-> num(4).n, toprl |-> num(5).n, left |-> num(6).n,
                     right |-> num(7).n, xincr |-> num(8).n, yincr |-> num(9).n,
                     noch |-> num(10).n]
                npairs == (Len(lines) - 10) \div 2
                chainage(k) == parseNumericParam(lines[9 + 2 * k], FALSE)
                level(k) == parseNumericParam(lines[10 + 2 * k], FALSE)
                crossSections ==
                    [k \in 1..npairs |->
                        [chainage |-> chainage(k).n, level |-> level(k).n]]
                sorted == sortByChainage(crossSections)
                thrown ==
                    FirstThrown(
                        [i \in 1..10 |-> <<num(i).thrown, InvalidMessage[i]>>]
                        \o <<<<parameters.scale1 <= 0 \/ parameters.scale2 <= 0,
                               "Scale values must be positive">>,
                             <<parameters.xincr <= 0 \/ parameters.yincr <= 0,
                               "Increment values must be positive">>,
                             <<parameters.noch <= 0 \/ ~isInteger(parameters.noch),
                               "Number of chainages must be a positive integer">>,
                             <<parameters.right <= parameters.left,
                               "Right chainage must be greater than left chainage">>,
                             <<parameters.toprl <= parameters.datum,
                               "Top level must be greater than datum level">>>>
                        \o Cat([k \in 1..npairs |->
                                  <<<<chainage(k).thrown, "Invalid chainage">>,
                                    <<level(k).thrown, "Invalid level">>,
                                    <<chainage(k).n < parameters.left
                                         \/ chainage(k).n > parameters.right,
                                      "Chainage is outside the valid range">>>>])
                        \o <<<<Len(sorted) > 0
                                 /\ (sorted[1].chainage > parameters.left
                                     \/ sorted[Len(sorted)].chainage
                                            < parameters.right),
                               "Cross-sections must cover the full chainage range">>,
                             <<bridgeInputSchemaRejects(parameters),
                               "Invalid input parameters">>>>)
            IN  IF thrown # "" THEN ErrorResponse(400, thrown)
                ELSE SuccessResponse(parameters, sorted)

----------------------------------------------------------------------------
(* The state machine *)

\* the input file that describes a ParameterSet
FileOf(p) ==
    <<NumberLine(M(p.scale1)), NumberLine(M(p.scale2)), NumberLine(M(p.skew)),
      NumberLine(p.datum), NumberLine(p.toprl), NumberLine(p.left),
      NumberLine(p.right), NumberLine(p.xincr), NumberLine(p.yincr),
      NumberLine(M(p.noch))>>

\* slips of the pen: <<line number, what is written there instead>>
Slips(p) ==
    <<<<1, NumberLine(0)>>, <<2, NumberLine(0 - M(50))>>,
      <<8, NumberLine(0)>>, <<9, NumberLine(0 - M(5))>>,
      <<7, NumberLine(p.left)>>, <<7, NumberLine(p.left - M(10))>>,
      <<5, NumberLine(p.datum)>>, <<5, NumberLine(p.datum - M(1))>>,
      <<10, NumberLine(0)>>, <<10, NumberLine(0 - M(2))>>,
      <<10, NumberLine(M(3) + Dm(7))>>, <<10, TextLine>>, <<3, TextLine>>>>

NoSlip == 0
TextChainage == 14      \* the first chainage line is not a number
NineLines == 15         \* the tenth line is missing
EmptyInput == 16
SlipChoices == 0..16

\* the chainages a surveyed point is written with
ChainageChoices(p) ==
    <<p.left - M(1), p.left, p.left + M(5), p.right, p.right + M(1)>>

\* lists of up to MaxPts points, each an index into ChainageChoices
PointChoices == UNION {[1..n -> 1..5] : n \in 0..MaxPts}
CoveringPoints == <<2, 4>>

\* the lines of the points cs, point k at datum + k metres
PointLines(p, cs) ==
    Cat([k \in 1..Len(cs) |->
            <<NumberLine(ChainageChoices(p)[cs[k]]), NumberLine(p.datum + M(k))>>])

\* a blank line before every third line, and one at the end
WithBlanks(file) ==
    Cat([i \in 1..Len(file) |->
            IF i % 3 = 1 THEN <<BlankLine, file[i]>> ELSE <<file[i]>>])
    \o <<BlankLine>>

\* the input files tried: the file of the ParameterSet with at most one slip
\* and no points or the two bank points, or without slip and with any points
\* and possibly one more line after them
InputChoices ==
    {c \in [slip : SlipChoices, points : PointChoices, rest : BOOLEAN,
            blanks : BOOLEAN] :
        c.slip # NoSlip => (c.points \in {<<>>, CoveringPoints} /\ ~c.rest)}

InputData(p, c) ==
    LET scalars ==
            CASE c.slip = NoSlip -> FileOf(p)
              [] c.slip = TextChainage -> FileOf(p)
              [] c.slip = NineLines -> SubSeq(FileOf(p), 1, 9)
              [] c.slip = EmptyInput -> <<>>
              [] OTHER ->
                    [FileOf(p) EXCEPT ![Slips(p)[c.slip][1]] = Slips(p)[c.slip][2]]
        points ==
            CASE c.slip = TextChainage ->
                    <<TextLine, NumberLine(p.datum)>> \o PointLines(p, c.points)
              [] c.slip \in {NineLines, EmptyInput} -> <<>>
              [] OTHER -> PointLines(p, c.points)
        file == scalars \o points
                \o (IF c.rest THEN <<NumberLine(p.left)>> ELSE <<>>)
    IN  IF c.blanks /\ c.slip # EmptyInput THEN WithBlanks(file) ELSE file

NoParse ==
    [by |-> "none", method |-> "POST", inputData |-> <<>>,
     response |-> ErrorResponse(0, "")]

\* EnhancedBridgeInterface: the parameters it starts with
DefaultParameters ==
    [scale1 |-> 100, scale2 |-> 50, skew |-> 0, datum |-> 0, toprl |-> M(20),
     left |-> 0, right |-> M(100), xincr |-> M(10), yincr |-> M(2), noch |-> 10]

\* the options generateDXFDrawing passes; the flags it leaves out are undefined
InterfaceOptions(parameters) ==
    [scale |-> parameters.scale1, includeDimensions |-> TRUE,
     includeGrid |-> TRUE, includeCrossSection |-> FALSE,
     useTextStyle |-> FALSE, includeDetailedPier |-> FALSE,
     includeDetailedAbutment |-> FALSE]

\* a number typed into a field: scale1, scale2, skew and noch are held as
\* plain integers by the generator and the calculator, the rest in units 1/Q
InUnit(field, n) ==
    IF field \in {"scale1", "scale2", "skew", "noch"} THEN n \div Q ELSE n

\* what the user types into the fields of the enhanced interface and of the
\* parameter editor (xincr, yincr and scale2 are left alone: a non-positive
\* increment keeps the grid loop from ending, a zero scale2 gives sc = Infinity)
InterfaceEdits ==
    {<<"right", NumberLine(0)>>, <<"right", NumberLine(M(60))>>,
     <<"scale1", NumberLine(0)>>, <<"toprl", TextLine>>}

EditorEdits ==
    {<<"noch", NumberLine(0)>>, <<"noch", TextLine>>,
     <<"right", NumberLine(0 - M(10))>>, <<"scale1", NumberLine(0)>>,
     <<"scale1", NumberLine(M(200))>>}

\* calculatedValues of the parse route's answer, and those the enhanced
\* page's handleParametersChange stores; skew1 in units of 1e-8 radian
\* (Math.PI / 180 there, 0.0174532 here)
routeCalculatedValues(parameters) ==
    [vvs |-> 1000, hhs |-> 1000, skew1 |-> parameters.skew * 1745329,
     sc |-> (parameters.scale1 * Q) \div parameters.scale2]

pageCalculatedValues(parameters) ==
    [vvs |-> 1000, hhs |-> 1000, skew1 |-> parameters.skew * 1745320,
     sc |-> (parameters.scale1 * Q) \div parameters.scale2]

\* no page opened yet: the page's bridgeData state is null; p is the
\* ParameterSet of the file the user will upload, which the parameter editor
\* is given once it is parsed
NoInterface(p) ==
    [page |-> "none", parameters |-> DefaultParameters, bridgeDesign |-> <<>>,
     editableParams |-> p, hasChanges |-> FALSE, toast |-> "",
     bridgeData |-> <<>>]

\* the surveys handed to generateCrossSection: up to MaxPts vertices, 5 m
\* and 10 m right of left and at the absolute chainages 10 m and 15 m
SurveyChainages(p) == {p.left + M(5), p.left + M(10), M(10), M(15)}

SurveySets(p) ==
    UNION {[1..n -> {[chainage |-> ch, level |-> p.datum + M(1)] :
                        ch \in SurveyChainages(p)}] : n \in 0..MaxPts}

NoSection ==
    [made |-> FALSE, data |-> <<>>, points |-> <<>>, markers |-> <<>>,
     gridLines |-> [vertical |-> <<>>, horizontal |-> <<>>]]

NoLoop ==
    [pass |-> "none", v |-> 0, vertical |-> 0, horizontal |-> 0,
     layout |-> <<>>]

NoElevation ==
    [calls |-> 0, plans |-> 0, before |-> <<>>, first |-> <<>>, last |-> <<>>]

NoProbe ==
    [op |-> "none", in |-> Pt(0, 0), out |-> Pt(0, 0)]

ProbePoints == {Pt(M(a), M(b)) : a \in {0, 10}, b \in {0 - 4, 3}}

NoOptions == CHOOSE o \in OptionSets : TRUE

NoCall == [op |-> "none", options |-> NoOptions]

\* the drawing canvas computes its calculator outputs once it is given the
\* parameters (the body of its useMemo)
RenderBridgeData(c) ==
    [rendered |-> TRUE,
     bridgeElevation |-> generateBridgeElevation(c),
     bridgePlan |-> generateBridgePlan(c)]

NoBridgeData ==
    [rendered |-> FALSE, bridgeElevation |-> <<>>, bridgePlan |-> <<>>]

----------------------------------------------------------------------------
(* The project store and the route that fills it *)

\* how many project requests are followed
MaxRequests == 2

\* JavaScript values of a request body: a missing member reads as undefined,
\* a JSON null as null
Undefined == [kind |-> "undefined", chainage |-> 0, level |-> 0, items |-> <<>>]
Null == [kind |-> "null", chainage |-> 0, level |-> 0, items |-> <<>>]

\* a cross-section of the body: { chainage, level }
SectionValue(chainage, level) ==
    [kind |-> "object", chainage |-> chainage, level |-> level, items |-> <<>>]

\* an array of the body
ArrayValue(items) ==
    [kind |-> "array", chainage |-> 0, level |-> 0, items |-> items]

\* the parameters member of the body: { crossSections, ... }
ParametersValue(crossSections) ==
    [kind |-> "object", crossSections |-> crossSections]

NoParametersValue == [kind |-> "undefined", crossSections |-> Undefined]

\* the request bodies followed: no parameters, parameters without
\* cross-sections, and parameters with none, one or two cross-sections, the
\* last of which may be null
ProjectBodies ==
    {[name |-> "Bridge", parameters |-> p] :
        p \in {NoParametersValue} \cup
              {ParametersValue(cs) :
                  cs \in {Undefined,
                          ArrayValue(<<>>),
                          ArrayValue(<<SectionValue(M(0), M(9))>>),
                          ArrayValue(<<SectionValue(M(0), M(9)),
                                       SectionValue(M(10), M(8))>>),
                          ArrayValue(<<SectionValue(M(0), M(9)), Null>>)}}}

NoBody == [name |-> "", parameters |-> NoParametersValue]

\* new MemStorage(): three empty maps; uuids counts the identifiers that
\* randomUUID has handed out, each one new
NewMemStorage ==
    [bridgeProjects |-> <<>>,
     bridgeParameters |-> <<>>,
     bridgeCrossSections |-> <<>>,
     uuids |-> 0]

\* randomUUID(): an identifier not handed out before
randomUUID(s) == s.uuids + 1

\* MemStorage.createBridgeProject: the project is stored under a new id (the
\* input text and the creation time of the record are left out)
createBridgeProject(s, insertProject) ==
    LET id == randomUUID(s)
        project == [id |-> id,
                    name |-> insertProject.name,
                    userId |-> "null",
                    generatedDrawing |-> "null"]
    IN  [s EXCEPT !.uuids = id,
                  !.bridgeProjects = (id :> project) @@ s.bridgeProjects]

\* MemStorage.createBridgeParameters: the record is stored under the
\* project's id, in place of one already there
createBridgeParameters(s, params) ==
    LET id == randomUUID(s)
        parameters == [id |-> id,
                       projectId |-> params.projectId,
                       parameters |-> params.parameters]
    IN  [s EXCEPT !.uuids = id,
                  !.bridgeParameters =
                      (params.projectId :> parameters) @@ s.bridgeParameters]

\* MemStorage.getBridgeCrossSections: the list of the project, or []
getBridgeCrossSections(s, projectId) ==
    IF projectId \in DOMAIN s.bridgeCrossSections
    THEN s.bridgeCrossSections[projectId]
    ELSE <<>>

\* MemStorage.createBridgeCrossSection: the record is pushed onto the
\* project's list
createBridgeCrossSection(s, sec) ==
    LET id == randomUUID(s)
        crossSection == [id |-> id,
                         projectId |-> sec.projectId,
                         chainage |-> sec.chainage,
                         level |-> sec.level,
                         sequence |-> sec.sequence]
        existing == getBridgeCrossSections(s, sec.projectId)
    IN  [s EXCEPT !.uuids = id,
                  !.bridgeCrossSections =
                      (sec.projectId :> Append(existing, crossSection))
                          @@ s.bridgeCrossSections]

\* no request is being handled; answers lists the responses given, each with
\* the body it answers and the id of the project its request created
NoRequest ==
    [pc |-> "idle", body |-> NoBody, project |-> 0, i |-> 0, answers |-> <<>>]

----------------------------------------------------------------------------
(* The progress tracker of the upload page *)

\* ProgressTrackerProps.status
Statuses == {"uploaded", "processing", "completed", "error"}

\* ProgressTrackerProps.progress, a percentage
ProgressValues == 0..100

\* the progress at which each of the five steps is complete
StepThresholds == <<10, 30, 60, 80, 100>>

\* baseSteps: a step is completed from its threshold on, and active while
\* the status is 'processing' and the progress lies between the threshold
\* before it and its own (the first step has no threshold before it)
baseSteps(status, progress) ==
    [id \in 1..5 |->
        [id |-> id,
         completed |-> progress >= StepThresholds[id],
         active |-> /\ id > 1 => progress >= StepThresholds[id - 1]
                    /\ progress < StepThresholds[id]
                    /\ status = "processing",
         error |-> FALSE]]

\* ProgressTracker.getSteps: under status 'error' each step's error is its
\* active, and its active is false; otherwise the base steps, whose missing
\* error reads as false
getSteps(status, progress) ==
    IF status = "error"
    THEN [id \in 1..5 |->
             [baseSteps(status, progress)[id] EXCEPT
                 !.error = baseSteps(status, progress)[id].active,
                 !.active = FALSE]]
    ELSE baseSteps(status, progress)

\* the component has not been rendered
NoTracker ==
    [rendered |-> FALSE, status |-> "uploaded", progress |-> 0, steps |-> <<>>]

----------------------------------------------------------------------------
(* The state machine: initial state and actions *)

Init ==
    \E p \in ParameterSets :
        /\ dwg = NewDWGGenerator(p)
        /\ commands = <<>>
        /\ lastCall = NoCall
        /\ calc = NewBridgeCalculator(p)
        /\ bridgeData = NoBridgeData
        /\ probe = NoProbe
        /\ parse = NoParse
        /\ ui = NoInterface(p)
        /\ section = NoSection
        /\ elev = NoElevation
        /\ loop = NoLoop
        /\ storage = NewMemStorage
        /\ request = NoRequest
        /\ tracker = NoTracker

\* the canvas renders the parameters it was given
Render ==
    /\ ~bridgeData.rendered
    /\ bridgeData' = RenderBridgeData(calc)
    /\ UNCHANGED <<dwg, commands, lastCall, calc, probe, parse, ui,
                   section, elev, loop, storage, request, tracker>>

\* DWGGenerator.generateDWG(options) on the instance: one run per instance,
\* started from the page that shows the rendered drawing
GenerateDWG(options) ==
    /\ bridgeData.rendered
    /\ lastCall.op = "none"
    /\ LET result == generateDWG(dwg, options)
       IN  /\ dwg' = result.self
           /\ commands' = result.commands
    /\ lastCall' = [op |-> "generateDWG", options |-> options]
    /\ UNCHANGED <<calc, bridgeData, probe, parse, ui, section, elev, loop, storage, request, tracker>>

\* generateBridgeDWG(parameters, options, crossSectionData) for the project's
\* parameters
GenerateBridgeDWG(options, crossSectionData) ==
    /\ bridgeData.rendered
    /\ lastCall.op = "none"
    /\ LET result == generateBridgeDWG(dwg.parameters, options, crossSectionData)
       IN  /\ dwg' = result.self
           /\ commands' = result.commands
    /\ lastCall' = [op |-> "generateBridgeDWG", options |-> options]
    /\ UNCHANGED <<calc, bridgeData, probe, parse, ui, section, elev, loop, storage, request, tracker>>

\* DWGGenerator.addCrossSection(commands, crossSectionData) called by a user
\* of the instance on the list it holds: the list a run of generateDWG
\* returned, or an empty one before any run
AddCrossSection(crossSectionData) ==
    /\ bridgeData.rendered
    /\ lastCall.op \in {"none", "generateDWG"}
    /\ commands' = commands \o addCrossSection(dwg, crossSectionData)
    /\ lastCall' = [lastCall EXCEPT !.op = "addCrossSection"]
    /\ UNCHANGED <<dwg, calc, bridgeData, probe, parse, ui, section, elev, loop, storage, request, tracker>>

Next ==
    \/ Render
    \/ \E options \in OptionSets : GenerateDWG(options)
    \/ \E options \in OptionSets :
         \E data \in SectionDataSets(dwg.parameters) :
            GenerateBridgeDWG(options, data)
    \/ \E data \in SectionDataSets(dwg.parameters) : AddCrossSection(data)

Spec == Init /\ [][Next]_vars

\* the drawing primitives and the two skew transformations applied to points
DrawLine(point) ==
    /\ LET line == drawLine(dwg, point.x, point.y, 0, 0, "0", 7, 25,
                            "drawLine", 0, "line")
       IN  probe' = [op |-> "drawLine", in |-> point,
                     out |-> Pt(line.x1, line.y1)]
    /\ UNCHANGED <<dwg, commands, lastCall, calc, bridgeData, parse, ui,
                   section, elev, loop, storage, request, tracker>>

DrawText(point) ==
    /\ LET text == drawText(dwg, point.x, point.y, Str(""), 250, "TEXT", 7, 0,
                            "drawText", 0, "text")
       IN  probe' = [op |-> "drawText", in |-> point,
                     out |-> Pt(text.x1, text.y1)]
    /\ UNCHANGED <<dwg, commands, lastCall, calc, bridgeData, parse, ui,
                   section, elev, loop, storage, request, tracker>>

ApplySkew(point) ==
    /\ probe' = [op |-> "applySkew", in |-> point,
                 out |-> applySkew(dwg, point.x, point.y)]
    /\ UNCHANGED <<dwg, commands, lastCall, calc, bridgeData, parse, ui,
                   section, elev, loop, storage, request, tracker>>

ApplySkewTransformation(point) ==
    /\ probe' = [op |-> "applySkewTransformation", in |-> point,
                 out |-> applySkewTransformation(calc, point)]
    /\ UNCHANGED <<dwg, commands, lastCall, calc, bridgeData, parse, ui,
                   section, elev, loop, storage, request, tracker>>

NextTransform ==
    \/ \E point \in ProbePoints : DrawLine(point)
    \/ \E point \in ProbePoints : DrawText(point)
    \/ \E point \in ProbePoints : ApplySkew(point)
    \/ \E point \in ProbePoints : ApplySkewTransformation(point)

SpecTransform == Init /\ [][NextTransform]_vars

\* BridgeCalculator.generateCrossSection asked for the overlay of a survey
GenerateCrossSection(crossSectionData) ==
    /\ ~section.made
    /\ LET cs == generateCrossSection(calc, crossSectionData)
       IN  section' = [made |-> TRUE, data |-> crossSectionData,
                       points |-> cs.points, markers |-> cs.markers,
                       gridLines |-> cs.gridLines]
    /\ UNCHANGED <<dwg, commands, lastCall, calc, bridgeData, probe, parse, ui, elev, loop, storage, request, tracker>>

NextSection ==
    \E data \in SurveySets(calc.params) : GenerateCrossSection(data)

SpecSection == Init /\ [][NextSection]_vars

\* one more call of generateBridgeElevation on the instance (two are followed)
\* and, between them, a call of generateBridgePlan on the same instance,
\* which assigns no field of it either
CallGenerateBridgeElevation ==
    /\ elev.calls < 2
    /\ LET result == generateBridgeElevation(calc)
       IN  elev' = [elev EXCEPT
                      !.calls = @ + 1,
                      !.before = IF elev.calls = 0 THEN <<calc.params>> ELSE @,
                      !.first = IF elev.calls = 0 THEN <<result>> ELSE @,
                      !.last = <<result>>]
    /\ calc' = instanceAfterElevation(calc)
    /\ UNCHANGED <<dwg, commands, lastCall, bridgeData, probe, parse, ui, section, loop, storage, request, tracker>>

CallGenerateBridgePlan ==
    /\ elev.plans < 1
    /\ elev' = [elev EXCEPT !.plans = @ + 1]
    /\ UNCHANGED <<dwg, commands, lastCall, calc, bridgeData, probe, parse, ui,
                   section, loop, storage, request, tracker>>

NextElevation ==
    \/ CallGenerateBridgeElevation
    \/ CallGenerateBridgePlan

SpecElevation == Init /\ [][NextElevation]_vars

\* The grid pass of generateDWG (drawGrid) taken one loop iteration at a
\* time: the loop over the vertical lines, then the loop over the horizontal
\* ones; loop.vertical and loop.horizontal count the grid lines pushed
GridStart ==
    /\ loop.pass = "none"
    /\ loop' = [loop EXCEPT
                  !.pass = "vertical",
                  !.v = gridLoopStart(dwg.parameters.left, dwg.parameters.xincr)]
    /\ UNCHANGED <<dwg, commands, lastCall, calc, bridgeData, probe, parse, ui,
                   section, elev, storage, request, tracker>>

VerticalStep ==
    /\ loop.pass = "vertical"
    /\ loop.v <= dwg.parameters.right
    /\ loop' = [loop EXCEPT
                  !.vertical = @ + 1,
                  !.v = gridLoopNext(loop.v, dwg.parameters.xincr)]
    /\ UNCHANGED <<dwg, commands, lastCall, calc, bridgeData, probe, parse, ui,
                   section, elev, storage, request, tracker>>

VerticalEnd ==
    /\ loop.pass = "vertical"
    /\ loop.v > dwg.parameters.right
    /\ loop' = [loop EXCEPT
                  !.pass = "horizontal",
                  !.v = gridLoopStart(dwg.parameters.datum, dwg.parameters.yincr)]
    /\ UNCHANGED <<dwg, commands, lastCall, calc, bridgeData, probe, parse, ui,
                   section, elev, storage, request, tracker>>

HorizontalStep ==
    /\ loop.pass = "horizontal"
    /\ loop.v <= dwg.parameters.toprl
    /\ loop' = [loop EXCEPT
                  !.horizontal = @ + 1,
                  !.v = gridLoopNext(loop.v, dwg.parameters.yincr)]
    /\ UNCHANGED <<dwg, commands, lastCall, calc, bridgeData, probe, parse, ui,
                   section, elev, storage, request, tracker>>

HorizontalEnd ==
    /\ loop.pass = "horizontal"
    /\ loop.v > dwg.parameters.toprl
    /\ loop' = [loop EXCEPT !.pass = "done"]
    /\ UNCHANGED <<dwg, commands, lastCall, calc, bridgeData, probe, parse, ui,
                   section, elev, storage, request, tracker>>

\* BridgeCalculator.generateLayoutPoints, once the grid pass is over
GenerateLayoutPoints ==
    /\ loop.pass = "done"
    /\ loop.layout = <<>>
    /\ loop' = [loop EXCEPT !.layout = <<generateLayoutPoints(calc)>>]
    /\ UNCHANGED <<dwg, commands, lastCall, calc, bridgeData, probe, parse, ui,
                   section, elev, storage, request, tracker>>

NextGrid ==
    \/ GridStart
    \/ VerticalStep
    \/ VerticalEnd
    \/ HorizontalStep
    \/ HorizontalEnd
    \/ GenerateLayoutPoints

\* the loops run on: nothing but the loop condition holds an iteration back
SpecGrid == Init /\ [][NextGrid]_vars /\ WF_vars(NextGrid)

----------------------------------------------------------------------------
(* POST /api/bridge/project: the handler runs from one await to the next *)

\* the handler answers and the request is over
Answer(status) ==
    [request EXCEPT !.pc = "idle",
                    !.answers = Append(@, [status |-> status,
                                           body |-> request.body,
                                           project |-> request.project])]

\* the request arrives: the body is taken apart and the project is created
PostProject ==
    /\ request.pc = "idle"
    /\ Len(request.answers) < MaxRequests
    /\ \E body \in ProjectBodies :
           /\ storage' = createBridgeProject(storage, [name |-> body.name])
           /\ request' = [request EXCEPT !.pc = "parameters",
                                         !.body = body,
                                         !.project = randomUUID(storage),
                                         !.i = 0]
    /\ UNCHANGED <<dwg, commands, lastCall, calc, bridgeData, probe, parse, ui,
                   section, elev, loop, tracker>>

\* the project is there: { projectId, ...parameters } is stored
CreateParameters ==
    /\ request.pc = "parameters"
    /\ storage' = createBridgeParameters(storage,
                      [projectId |-> request.project,
                       parameters |-> request.body.parameters])
    /\ request' = [request EXCEPT !.pc = "sections"]
    /\ UNCHANGED <<dwg, commands, lastCall, calc, bridgeData, probe, parse, ui,
                   section, elev, loop, tracker>>

\* the cross-sections still to be stored: parameters.crossSections and the
\* loop over it
SectionsLeft ==
    /\ request.pc = "sections"
    /\ request.body.parameters.kind = "object"
    /\ request.body.parameters.crossSections.kind = "array"
    /\ request.i < Len(request.body.parameters.crossSections.items)

\* one turn of the loop: the next cross-section is stored with its index
CreateCrossSection ==
    /\ SectionsLeft
    /\ LET sec == request.body.parameters.crossSections.items[request.i + 1]
       IN  /\ sec.kind = "object"
           /\ storage' = createBridgeCrossSection(storage,
                             [projectId |-> request.project,
                              chainage |-> sec.chainage,
                              level |-> sec.level,
                              sequence |-> request.i])
    /\ request' = [request EXCEPT !.i = @ + 1]
    /\ UNCHANGED <<dwg, commands, lastCall, calc, bridgeData, probe, parse, ui,
                   section, elev, loop, tracker>>

\* nothing is left to store: res.json({ success: true, project })
RespondSuccess ==
    /\ request.pc = "sections"
    /\ request.body.parameters.kind = "object"
    /\ ~SectionsLeft
    /\ request' = Answer(200)
    /\ UNCHANGED <<dwg, commands, lastCall, calc, bridgeData, probe, parse, ui,
                   section, elev, loop, storage, tracker>>

\* reading a member of undefined or of null throws; the catch block answers
\* res.status(500) and touches nothing else
RespondError ==
    /\ request.pc = "sections"
    /\ \/ request.body.parameters.kind = "undefined"
       \/ /\ SectionsLeft
          /\ request.body.parameters.crossSections
                 .items[request.i + 1].kind = "null"
    /\ request' = Answer(500)
    /\ UNCHANGED <<dwg, commands, lastCall, calc, bridgeData, probe, parse, ui,
                   section, elev, loop, storage, tracker>>

NextProject ==
    \/ PostProject
    \/ CreateParameters
    \/ CreateCrossSection
    \/ RespondSuccess
    \/ RespondError

SpecProject == Init /\ [][NextProject]_vars

----------------------------------------------------------------------------
(* The progress tracker is rendered with the props its parent hands it *)

\* ProgressTracker({ status, progress }): const steps = getSteps()
RenderProgressTracker ==
    /\ \E status \in Statuses, progress \in ProgressValues :
           tracker' = [rendered |-> TRUE,
                       status |-> status,
                       progress |-> progress,
                       steps |-> getSteps(status, progress)]
    /\ UNCHANGED <<dwg, commands, lastCall, calc, bridgeData, probe, parse, ui,
                   section, elev, loop, storage, request>>

NextTracker == RenderProgressTracker

SpecTracker == Init /\ [][NextTracker]_vars

\* a request to the serverless parse handler, and one to the Express route;
\* the operation keeps no state between requests, so one request is followed
ParseHandler(method, inputData) ==
    /\ parse.by = "none"
    /\ parse' = [by |-> "handler", method |-> method, inputData |-> inputData,
                 response |-> handler(method, inputData)]
    /\ UNCHANGED <<dwg, commands, lastCall, calc, bridgeData, probe, ui,
                   section, elev, loop, storage, request, tracker>>

ParseRoute(inputData) ==
    /\ parse.by = "none"
    /\ parse' = [by |-> "route", method |-> "POST", inputData |-> inputData,
                 response |-> parseRoute(inputData)]
    /\ UNCHANGED <<dwg, commands, lastCall, calc, bridgeData, probe, ui,
                   section, elev, loop, storage, request, tracker>>

NextParse ==
    \/ \E method \in {"POST", "GET"} :
         \E c \in InputChoices : ParseHandler(method, InputData(calc.params, c))
    \/ \E c \in InputChoices : ParseRoute(InputData(calc.params, c))

SpecParse == Init /\ [][NextParse]_vars

\* EnhancedBridgeInterface.handleParameterChange(key, value), the page's
\* handleParametersChange it calls, and the BridgeCanvas render that follows.
\* The page declares handleParametersChange twice: the first always stores
\* the parameters, the second only over bridge data already stored (there
\* is none on this page before the first call); either may be the one built.
\* One generation per session is followed.
HandleParameterChange(key, value) ==
    /\ ui.page \in {"none", "enhanced"}
    /\ ui.bridgeDesign = <<>>
    /\ lastCall.op = "none"
    /\ LET numValue == parseFloat(value)
           newParameters ==
               [ui.parameters EXCEPT ![key] = InUnit(key, numValue.n)]
       IN  IF numValue.nan
           THEN /\ ui' = [ui EXCEPT !.page = "enhanced"]
                /\ UNCHANGED <<calc, bridgeData>>
           ELSE \/ /\ ui' = [ui EXCEPT
                               !.page = "enhanced",
                               !.parameters = newParameters,
                               !.bridgeData =
                                  <<[parameters |-> newParameters,
                                     calculatedValues |->
                                        pageCalculatedValues(newParameters)]>>]
                   /\ calc' = NewBridgeCalculator(newParameters)
                   /\ bridgeData' =
                          RenderBridgeData(NewBridgeCalculator(newParameters))
                \/ /\ ui.bridgeData = <<>>
                   /\ ui' = [ui EXCEPT !.page = "enhanced",
                                       !.parameters = newParameters]
                   /\ UNCHANGED <<calc, bridgeData>>
    /\ UNCHANGED <<dwg, commands, lastCall, probe, parse, section, elev, loop, storage, request, tracker>>

\* EnhancedBridgeInterface.generateBridgeDesign
GenerateBridgeDesign ==
    /\ ui.page \in {"none", "enhanced"}
    /\ ui.bridgeDesign = <<>>
    /\ LET calculator == NewBridgeCalculator(ui.parameters)
       IN  ui' = [ui EXCEPT
                    !.page = "enhanced",
                    !.bridgeDesign =
                        <<[parameters |-> ui.parameters,
                           elevation |-> generateBridgeElevation(calculator),
                           plan |-> generateBridgePlan(calculator)]>>,
                    !.toast = "Bridge Design Generated"]
    /\ UNCHANGED <<dwg, commands, lastCall, calc, bridgeData, probe, parse,
                   section, elev, loop, storage, request, tracker>>

\* EnhancedBridgeInterface.generateDXFDrawing; crossSectionData is never set
GenerateDXFDrawing ==
    /\ ui.page \in {"none", "enhanced"}
    /\ lastCall.op = "none"
    /\ LET options == InterfaceOptions(ui.parameters)
           dwgData == generateBridgeDWG(ui.parameters, options, <<>>)
       IN  /\ dwg' = dwgData.self
           /\ commands' = dwgData.commands
           /\ lastCall' = [op |-> "generateBridgeDWG", options |-> options]
    /\ ui' = [ui EXCEPT !.page = "enhanced", !.toast = "DXF Generated"]
    /\ UNCHANGED <<calc, bridgeData, probe, parse, section, elev, loop, storage, request, tracker>>

\* the user uploads the file of the ParameterSet: handleFileSelect, the
\* answer of the parse route, parseInputMutation.onSuccess and the render of
\* the canvas and of the parameter editor that follows
ParseSucceeded ==
    /\ ui.page = "none"
    /\ LET parameters == ui.editableParams
       IN  /\ ui' = [ui EXCEPT
                       !.page = "generator",
                       !.bridgeData =
                          <<[parameters |-> parameters,
                             calculatedValues |->
                                routeCalculatedValues(parameters)]>>,
                       !.toast = "Input Parsed Successfully"]
           /\ calc' = NewBridgeCalculator(parameters)
           /\ bridgeData' = RenderBridgeData(NewBridgeCalculator(parameters))
    /\ UNCHANGED <<dwg, commands, lastCall, probe, parse, section, elev, loop, storage, request, tracker>>

\* ParameterEditor.handleParameterChange(field, value)
EditParameter(field, value) ==
    /\ ui.page = "generator"
    /\ LET parsed == IF field = "noch" THEN parseInt(value) ELSE parseFloat(value)
           numValue == IF parsed.nan THEN 0 ELSE InUnit(field, parsed.n)
       IN  ui' = [ui EXCEPT !.page = "generator",
                            !.editableParams[field] = numValue,
                            !.hasChanges = TRUE]
    /\ UNCHANGED <<dwg, commands, lastCall, calc, bridgeData, probe, parse,
                   section, elev, loop, storage, request, tracker>>

\* ParameterEditor.handleSave (its button is disabled without changes), the
\* page's handleParametersChange and the BridgeCanvas render that follows
HandleSave ==
    /\ ui.page = "generator"
    /\ ui.hasChanges
    /\ LET editableParams == ui.editableParams
       IN  IF \/ editableParams.scale1 <= 0 \/ editableParams.scale2 <= 0
              \/ editableParams.left >= editableParams.right
              \/ editableParams.datum >= editableParams.toprl
           THEN /\ ui' = [ui EXCEPT !.toast = "Validation Error"]
                /\ UNCHANGED <<calc, bridgeData>>
           ELSE /\ ui' = [ui EXCEPT
                               !.hasChanges = FALSE,
                               !.toast = "Parameters Updated",
                               !.bridgeData =
                                  <<[ui.bridgeData[1] EXCEPT
                                        !.parameters = editableParams]>>]
                /\ calc' = NewBridgeCalculator(editableParams)
                /\ bridgeData' = RenderBridgeData(NewBridgeCalculator(editableParams))
    /\ UNCHANGED <<dwg, commands, lastCall, probe, parse, section, elev, loop, storage, request, tracker>>

NextInterface ==
    \/ \E edit \in InterfaceEdits : HandleParameterChange(edit[1], edit[2])
    \/ GenerateBridgeDesign
    \/ GenerateDXFDrawing
    \/ ParseSucceeded
    \/ \E edit \in EditorEdits : EditParameter(edit[1], edit[2])
    \/ HandleSave

SpecInterface == Init /\ [][NextInterface]_vars

----------------------------------------------------------------------------
(* Properties of the command list *)

Parameters == dwg.parameters
BridgeLength == Parameters.right - Parameters.left

\* commands comes straight from a run of generateDWG / of either generator
FromGenerateDWG == lastCall.op = "generateDWG"
FromGenerator == lastCall.op \in {"generateDWG", "generateBridgeDWG"}

RECURSIVE Dedupe(_)
Dedupe(s) ==
    IF Len(s) < 2 THEN s
    ELSE IF s[1] = s[2] THEN Dedupe(Tail(s))
         ELSE <<s[1]>> \o Dedupe(Tail(s))

CommandsOf(bys, parts) ==
    SelectSeq(commands, LAMBDA c : c.by \in bys /\ c.part \in parts)

\* the elements (chainages) the methods bys drew a part of, in emission order
ElementsOf(bys, parts) ==
    LET sel == CommandsOf(bys, parts)
    IN  Dedupe([i \in 1..Len(sel) |-> sel[i].at])

SimplePass == {"drawBridge", "drawPier", "drawAbutment", "addSpanDimensions"}
DetailedPass == {"drawDetailedPiers", "drawDetailedAbutments"}
DimensionPass == {"drawAbutmentDimensions", "drawDimensions"}

Emitted(bys) == \E i \in 1..Len(commands) : commands[i].by \in bys

\* the stage of generateDWG a command was emitted in
Stage(c) ==
    CASE c.kind = "SECTION" -> 0
      [] c.by = "applyTextStyle" -> 1
      [] c.by = "drawGrid" -> 2
      [] c.by \in SimplePass \cup DetailedPass -> 3
      [] c.by \in DimensionPass -> 4
      [] c.by = "drawCrossSection" -> 5
      [] c.kind \in {"ENDSEC", "EOF"} -> 6
      [] OTHER -> 7

StagePresent(n) == \E i \in 1..Len(commands) : Stage(commands[i]) = n

WellBracketed(cs) ==
    /\ Len(cs) >= Len(SectionStart) + Len(Terminator)
    /\ SubSeq(cs, 1, Len(SectionStart)) = SectionStart
    /\ SubSeq(cs, Len(cs) - Len(Terminator) + 1, Len(cs)) = Terminator
    /\ \A i \in 1..(Len(cs) - Len(Terminator)) :
          cs[i].kind \notin {"ENDSEC", "EOF"}

\* C1: the command list returned by generateDWG and by generateBridgeDWG
\* begins with the section-start marker, its final entries are the
\* terminator, and no command follows the terminator.
C1_Bracketed == FromGenerator => WellBracketed(commands)

C3_OneStructuralPass ==
    FromGenerateDWG => (Emitted(SimplePass) # Emitted(DetailedPass))

\* the pier layout in closed form: pierCount = max(0, floor(L / 30) - 1) piers,
\* pier i at left + i * L / (pierCount + 1)
PierLayout(p) ==
    LET bridgeLength == p.right - p.left
        pierCount == Max(0, Floor(bridgeLength, M(30)) - 1)
    IN  [i \in 1..pierCount |-> p.left + (i * bridgeLength) \div (pierCount + 1)]

ElevationPierChainages ==
    [i \in 1..Len(bridgeData.bridgeElevation.piers) |->
        bridgeData.bridgeElevation.piers[i].chainage]

PlanPierChainages ==
    [i \in 1..Len(bridgeData.bridgePlan.piersInPlan) |->
        bridgeData.bridgePlan.piersInPlan[i].chainage]

DetailedPierLabels == CommandsOf({"drawDetailedPiers"}, {"label"})

\* C4: the piers of generateBridgeElevation and of drawDetailedPiers are
\* max(0, floor(L / 30) - 1) in number, pier i at left + i * L / (pierCount + 1);
\* a 90 m bridge has 2 piers, at left + 30 and left + 60.
C4_PierLayout ==
    /\ drawDetailedPiersChainages(Parameters) = PierLayout(Parameters)
    /\ bridgeData.rendered => ElevationPierChainages = PierLayout(calc.params)
    /\ (FromGenerateDWG /\ lastCall.options.includeDetailedPier) =>
          /\ ElementsOf({"drawDetailedPiers"}, {"label"}) = PierLayout(Parameters)
          /\ [i \in 1..Len(DetailedPierLabels) |-> DetailedPierLabels[i].x1]
                = [i \in 1..Len(PierLayout(Parameters)) |->
                      toFixed(hpos(dwg, PierLayout(Parameters)[i]), 2)]
    /\ BridgeLength = M(90) =>
          /\ drawDetailedPiersChainages(Parameters)
                = <<Parameters.left + M(30), Parameters.left + M(60)>>
          /\ bridgeData.rendered =>
                ElevationPierChainages
                    = <<Parameters.left + M(30), Parameters.left + M(60)>>

C4_NinetyMetres ==
    /\ FromGenerateDWG
    /\ lastCall.options.includeDetailedPier
    /\ BridgeLength = M(90)
    /\ Parameters.left # 0
    /\ Len(DetailedPierLabels) = 2
    /\ Len(bridgeData.bridgeElevation.piers) = 2

\* the abutments a command list renders: the method and the edge, in order
AbutmentsRendered ==
    LET sel == SelectSeq(commands,
                   LAMBDA c : c.by \in {"drawAbutment", "drawDetailedAbutments"})
    IN  Dedupe([i \in 1..Len(sel) |-> <<sel[i].by, sel[i].at>>])

\* C5: when right - left is below the nominal span 30 there is no pier and
\* exactly two abutments are rendered, one at left and one at right, by
\* generateBridgeElevation and by generateDWG under every option combination.
C5_ShortBridge ==
    BridgeLength < M(nominalSpan) =>
        /\ bridgeData.rendered =>
              /\ Len(bridgeData.bridgeElevation.piers) = 0
              /\ Len(bridgeData.bridgeElevation.abutments) = 2
        /\ FromGenerateDWG =>
              /\ ~Emitted({"drawPier", "drawDetailedPiers"})
              /\ Len(AbutmentsRendered) = 2
              /\ AbutmentsRendered[1][2] = Parameters.left
              /\ AbutmentsRendered[2][2] = Parameters.right

\* C6: for a ParameterSet the pier chainages of the simple bridge pass, of the
\* detailed pier pass and of the dimension pass's ticks are the same ordered
\* list.
C6_SharedPierLayout ==
    LET simple == drawBridgePierChainages(Parameters)
    IN  /\ drawDetailedPiersChainages(Parameters) = simple
        /\ drawDimensionsPierChainages(Parameters) = simple
        /\ FromGenerateDWG =>
              /\ ~lastCall.options.includeDetailedPier =>
                    ElementsOf({"drawPier"}, {"cap"}) = simple
              /\ lastCall.options.includeDetailedPier =>
                    ElementsOf({"drawDetailedPiers"}, {"cap"}) = simple
              /\ lastCall.options.includeDimensions =>
                    ElementsOf({"drawDimensions"}, {"tick"}) = simple

C6_UnevenSpans ==
    /\ FromGenerateDWG
    /\ ~lastCall.options.includeDetailedPier
    /\ lastCall.options.includeDimensions
    /\ BridgeLength = M(100)
    /\ Len(ElementsOf({"drawPier"}, {"cap"})) = 2
    /\ Len(ElementsOf({"drawDimensions"}, {"tick"})) = 2

\* C7: the pier chainages of generateBridgePlan equal those of
\* generateBridgeElevation: same chainages, same length, same order.
C7_PlanMatchesElevation ==
    bridgeData.rendered => PlanPierChainages = ElevationPierChainages

C7_PlanWithPiers ==
    /\ bridgeData.rendered
    /\ Len(bridgeData.bridgePlan.piersInPlan) >= 2
    /\ calc.params.left # 0

OverallLine == CommandsOf({"drawDimensions"}, {"overall"})[1]
HeightLine == CommandsOf({"drawDimensions"}, {"height"})[1]

\* C8: hpos(left) = 0 and vpos(datum) = 0 in DWGGenerator and in
\* BridgeCalculator, for every ParameterSet and scale.
C8_OriginAtLeftDatum ==
    /\ hpos(dwg, Parameters.left) = 0
    /\ vpos(dwg, Parameters.datum) = 0
    /\ calc_hpos(calc, calc.params.left) = 0
    /\ calc_vpos(calc, calc.params.datum) = 0
    /\ bridgeData.rendered =>
          bridgeData.bridgeElevation.abutments[1].points[2] = Pt(0, 0)
    /\ (FromGenerateDWG /\ lastCall.options.includeDimensions) =>
          /\ OverallLine.x1 = 0
          /\ HeightLine.y1 = 0

C8_ScaledOffsetSite ==
    /\ FromGenerateDWG
    /\ lastCall.options.includeDimensions
    /\ dwg.scale # 1
    /\ Parameters.left # 0
    /\ Parameters.datum # 0
    /\ OverallLine.x2 # 0
    /\ HeightLine.y2 # 0

----------------------------------------------------------------------------
(* Properties of the skew transformation *)

Emit(point) == Pt(toFixed(point.x, 2), toFixed(point.y, 2))

\* C9: when skew is non-zero, a point emitted through drawLine or drawText is
\* first rotated about the origin by the skew angle and only then mapped by
\* hpos / vpos.
C9_SkewRotates ==
    (probe.op \in {"drawLine", "drawText"} /\ Parameters.skew # 0) =>
        probe.out = Emit(rotateThenMap(dwg, probe.in.x, probe.in.y,
                                       SinDeg(Parameters.skew),
                                       CosDeg(Parameters.skew)))

\* C10: the skew = 0 shortcut of applySkew and of applySkewTransformation
\* returns the point the general rotation returns with sin = 0 and cos = 1.
C10_ShortcutIsRotationByZero ==
    /\ (probe.op = "applySkew" /\ dwg.skewAngle = 0) =>
          probe.out = rotateThenMap(dwg, probe.in.x, probe.in.y, 0, Q)
    /\ (probe.op = "applySkewTransformation" /\ calc.params.skew = 0) =>
          probe.out = rotate(probe.in, 0, Q)

C10_ShortcutTaken ==
    /\ probe.op = "applySkew"
    /\ dwg.skewAngle = 0
    /\ probe.in.x # 0
    /\ probe.in.y # 0
    /\ Parameters.left # 0
    /\ probe.out # probe.in

----------------------------------------------------------------------------
(* Properties of the parse operation *)

\* a POST request has been answered
Answered == parse.by \in {"handler", "route"} /\ parse.method = "POST"

\* what is written on the non-blank lines of the request's input file
Written == SelectSeq(parse.inputData, LAMBDA l : l.kind # "blank")
W(i) == Written[i].value
TenNumbers ==
    /\ Len(Written) >= 10
    /\ \A i \in 1..10 : Written[i].kind = "number"
AllNumbers ==
    /\ Len(Written) >= 10
    /\ \A i \in 1..Len(Written) : Written[i].kind = "number"

WrittenParameters ==
    [scale1 |-> W(1), scale2 |-> W(2), skew |-> W(3), datum |-> W(4),
     toprl |-> W(5), left |-> W(6), right |-> W(7), xincr |-> W(8),
     yincr |-> W(9), noch |-> W(10)]

\* the lines after the tenth, two at a time
WrittenPoints ==
    [k \in 1..((Len(Written) - 10) \div 2) |->
        [chainage |-> W(9 + 2 * k), level |-> W(10 + 2 * k)]]

ScalarFault ==
    \/ W(1) <= 0
    \/ W(2) <= 0
    \/ W(8) <= 0
    \/ W(9) <= 0
    \/ W(7) <= W(6)
    \/ W(5) <= W(4)
NochFault == W(10) <= 0 \/ W(10) % Q # 0
ChainageFault ==
    \E k \in 1..Len(WrittenPoints) :
        WrittenPoints[k].chainage < W(6) \/ WrittenPoints[k].chainage > W(7)

Rejected ==
    /\ parse.response.status # 200
    /\ ~parse.response.success
    /\ parse.response.error # ""
    /\ parse.response.parameters = <<>>
Accepted ==
    /\ parse.response.status = 200
    /\ parse.response.success
    /\ Len(parse.response.parameters) = 1

\* C11: the parse operation answers with an error and no parameters when
\* scale1 <= 0, scale2 <= 0, xincr <= 0, yincr <= 0, right <= left or
\* toprl <= datum, and with success for every well-formed input that violates
\* no validation condition.
C11_ScalarValidation ==
    /\ (Answered /\ TenNumbers /\ ScalarFault) => Rejected
    /\ (Answered /\ AllNumbers /\ ~ScalarFault /\ ~NochFault /\ ~ChainageFault)
          => Accepted

\* C12: the parse operation rejects every input whose tenth non-blank line is
\* not a positive integer (zero, negative, or a non-integer such as 3.7), and
\* when it accepts, the returned noch is the value written on that line.
C12_NochPositiveInteger ==
    /\ (Answered /\ TenNumbers /\ NochFault) => Rejected
    /\ (Answered /\ Accepted) => parse.response.parameters[1].noch = W(10)

\* C13: with valid scalar parameters the parse operation rejects the input if
\* and only if some cross-section chainage lies outside [left, right].
C13_ChainageRange ==
    (Answered /\ AllNumbers /\ ~ScalarFault /\ ~NochFault) =>
        /\ ChainageFault => Rejected
        /\ ~ChainageFault => Accepted

\* the same points, whatever their order
SamePoints(s, t) ==
    /\ Len(s) = Len(t)
    /\ \A e \in {s[i] : i \in 1..Len(s)} \cup {t[i] : i \in 1..Len(t)} :
          Cardinality({i \in 1..Len(s) : s[i] = e})
              = Cardinality({i \in 1..Len(t) : t[i] = e})

\* C15: blank lines are ignored; the first 10 non-blank lines are scale1,
\* scale2, skew, datum, toprl, left, right, xincr, yincr, noch in that order;
\* the remaining lines, two at a time, are the (chainage, level) points; fewer
\* than 10 non-blank lines is an error, and every line after the tenth belongs
\* to exactly one returned point.
C15_LineLayout ==
    /\ (Answered /\ Len(Written) < 10) => Rejected
    /\ (Answered /\ Accepted) =>
          /\ parse.response.parameters[1] = WrittenParameters
          /\ SamePoints(parse.response.crossSections, WrittenPoints)
          /\ 2 * Len(parse.response.crossSections) = Len(Written) - 10

----------------------------------------------------------------------------
(* Properties of the pages *)

\* the validation conditions of a ParameterSet
ValidParameterSet(p) ==
    /\ p.scale1 > 0
    /\ p.scale2 > 0
    /\ p.xincr > 0
    /\ p.yincr > 0
    /\ p.noch > 0
    /\ p.right > p.left
    /\ p.toprl > p.datum

\* C14: validation precedes synthesis: a ParameterSet that reaches geometry
\* synthesis or export satisfies every validation condition; an invalid
\* ParameterSet never produces a drawing command.
C14_ValidatedBeforeSynthesis ==
    /\ commands # <<>> => ValidParameterSet(Parameters)
    /\ bridgeData.rendered => ValidParameterSet(calc.params)
    /\ ui.bridgeDesign # <<>> => ValidParameterSet(ui.bridgeDesign[1].parameters)

----------------------------------------------------------------------------
(* Properties of the cross-section overlay *)

\* the chainages of the vertical lines of the grid pass
GridLineChainages(p) ==
    LET xs == GridValues(p.left, p.right, p.xincr)
    IN  {xs[i] : i \in 1..Len(xs)}

OnGridLine(p, x) == x \in GridLineChainages(p)

BetweenGridLines(p, x) ==
    /\ ~OnGridLine(p, x)
    /\ \E a, b \in GridLineChainages(p) : a < x /\ x < b

\* the label markers an overlay method put at the vertex of chainage x
OverlayLabels(by, x) ==
    {i \in 1..Len(commands) :
        /\ commands[i].by = by
        /\ commands[i].at = x
        /\ commands[i].part \in {"chainage", "level", "tick"}}

SectionMarkers(x) ==
    {i \in 1..Len(section.markers) : section.markers[i].at = x}

\* the vertices drawCrossSection drew in the command list, and the survey
\* addCrossSection appended to it
OverlayDrawn ==
    /\ lastCall.op \in {"generateDWG", "generateBridgeDWG", "addCrossSection"}
    /\ Emitted({"drawCrossSection"})
OverlayVertices ==
    {Parameters.crossSection[i].x : i \in 1..Len(Parameters.crossSection)}

AddedSurveys ==
    {data \in SectionDataSets(Parameters) :
        /\ Len(data) > 1
        /\ CommandsOf({"addCrossSection"}, {"profile", "chainage", "level"})
              = addCrossSection(dwg, data)}
SurveyVertices(data) == {data[i].chainage : i \in 1..Len(data)}

\* C16: in the cross-section overlay a vertex on a vertical line of the grid
\* of the grid pass receives no chainage/level label markers, and a vertex
\* strictly between two grid lines receives them (drawCrossSection,
\* addCrossSection and BridgeCalculator.generateCrossSection).
C16_LabelsOffGridOnly ==
    /\ OverlayDrawn =>
          \A x \in OverlayVertices :
              /\ OnGridLine(Parameters, x) => OverlayLabels("drawCrossSection", x) = {}
              /\ BetweenGridLines(Parameters, x) =>
                    OverlayLabels("drawCrossSection", x) # {}
    /\ \A data \in AddedSurveys : \A x \in SurveyVertices(data) :
              /\ OnGridLine(Parameters, x) => OverlayLabels("addCrossSection", x) = {}
              /\ BetweenGridLines(Parameters, x) =>
                    OverlayLabels("addCrossSection", x) # {}
    /\ section.made =>
          \A x \in SurveyVertices(section.data) :
              /\ OnGridLine(calc.params, x) => SectionMarkers(x) = {}
              /\ BetweenGridLines(calc.params, x) => SectionMarkers(x) # {}

\* the chainage label the grid pass put at chainage x
GridLabels(x) ==
    {i \in 1..Len(commands) :
        /\ commands[i].by = "drawGrid"
        /\ commands[i].part = "chainage"
        /\ commands[i].at = x}

\* C17: whenever the overlay skips the labels of a vertex, the same command
\* list holds a chainage label of the grid pass for that chainage; no vertex
\* chainage is left without any label in the final command list.
C17_SkippedLabelledByGrid ==
    OverlayDrawn =>
        \A x \in OverlayVertices :
            OverlayLabels("drawCrossSection", x) = {} => GridLabels(x) # {}

----------------------------------------------------------------------------
(* Properties of the deck and of the dimension annotations *)

\* the deck level of the spec: 1.5 m below toprl
DeckLevel(p) == p.toprl - Dm(15)

\* a line of the command list runs between the drawing positions of the
\* points (x1, y1) and (x2, y2)
RunsBetween(c, x1, y1, x2, y2) ==
    LET line == drawLine(dwg, x1, y1, x2, y2, "", 0, 0, "", 0, "")
    IN  /\ c.kind = "LINE"
        /\ c.x1 = line.x1 /\ c.y1 = line.y1
        /\ c.x2 = line.x2 /\ c.y2 = line.y2

\* the deck lines the structural pass drew from left to right at toprl - 1.5
DeckLines ==
    {i \in 1..Len(commands) :
        /\ commands[i].by \in SimplePass \cup DetailedPass
        /\ RunsBetween(commands[i], Parameters.left, DeckLevel(Parameters),
                       Parameters.right, DeckLevel(Parameters))}

\* C18: for every option combination the structural pass of generateDWG draws
\* the deck as a line from left to right at toprl - 1.5, and
\* generateBridgeElevation places the deck top at the same level.
C18_DeckBelowTopLevel ==
    /\ FromGenerator => DeckLines # {}
    /\ bridgeData.rendered =>
          /\ bridgeData.bridgeElevation.deck[1] =
                Pt(calc_hpos(calc, calc.params.left),
                   calc_vpos(calc, DeckLevel(calc.params)))
          /\ bridgeData.bridgeElevation.deck[2] =
                Pt(calc_hpos(calc, calc.params.right),
                   calc_vpos(calc, DeckLevel(calc.params)))

\* the overall-length line of drawDimensions stands dimOffset = 2.0 above
\* deckY = toprl, that is 3.5 above the level the deck is drawn at
DimensionOffset == Dm(15) + M(2)

OverallLabel(p) == Num("L = ", p.right - p.left, 0, " m")

\* the overall-length dimension of the command list: its line and its label
OverallDimensionLine ==
    {i \in 1..Len(commands) :
        /\ commands[i].by = "drawDimensions"
        /\ commands[i].part = "overall"
        /\ RunsBetween(commands[i],
                       Parameters.left, DeckLevel(Parameters) + DimensionOffset,
                       Parameters.right, DeckLevel(Parameters) + DimensionOffset)}

OverallDimensionLabel ==
    {i \in 1..Len(commands) :
        /\ commands[i].by = "drawDimensions"
        /\ commands[i].part = "overall"
        /\ commands[i].kind = "TEXT"
        /\ commands[i].text = OverallLabel(Parameters)
        /\ commands[i].x1 =
              drawText(dwg, (Parameters.left + Parameters.right) \div 2, 0,
                       Str(""), 0, "", 0, 0, "", 0, "").x1}

\* C19: with dimensions enabled the overall-length dimension is a horizontal
\* line from left to right at the deck level plus a fixed offset, labelled
\* "L = {right - left} m" at the midpoint (left + right)/2; the label text is
\* the same in drawDimensions and in generateBridgeElevation.
C19_OverallLengthDimension ==
    /\ (FromGenerator /\ lastCall.options.includeDimensions) =>
          /\ OverallDimensionLine # {}
          /\ OverallDimensionLabel # {}
    /\ bridgeData.rendered =>
          bridgeData.bridgeElevation.dimensions[1].value = OverallLabel(calc.params)

\* the layout boundaries of a ParameterSet: left, the piers, right
Boundaries(p) == <<p.left>> \o PierLayout(p) \o <<p.right>>

\* the span-length labels and the ticks of drawDimensions, in emission order
SpanLabels == CommandsOf({"drawDimensions"}, {"span"})
SpanTicks == CommandsOf({"drawDimensions"}, {"tick"})

\* label k is centred on span k of the layout and gives its length
LabelsSpan(c, p, k) ==
    LET from == Boundaries(p)[k]
        to == Boundaries(p)[k + 1]
    IN  /\ c.kind = "TEXT"
        /\ c.text = Num("", to - from, 0, " m")
        /\ c.x1 = drawText(dwg, (from + to) \div 2, 0, Str(""), 0, "", 0, 0, "",
                           0, "").x1

\* the span dimensions of the elevation
ElevationSpanDimensions ==
    SelectSeq(bridgeData.bridgeElevation.dimensions, LAMBDA d : d.level = 0)

\* C20: with dimensions enabled one span-length label is emitted for each
\* consecutive pair of layout boundaries left, pier 1, ..., pier pierCount,
\* right (pierCount + 1 labels, one for left..right when there is no pier),
\* each centred on its span, with a tick at each pier.
C20_SpanLabelPerSpan ==
    /\ (FromGenerator /\ lastCall.options.includeDimensions) =>
          /\ Len(SpanLabels) = Len(PierLayout(Parameters)) + 1
          /\ \A k \in 1..Len(SpanLabels) :
                k < Len(Boundaries(Parameters)) =>
                    LabelsSpan(SpanLabels[k], Parameters, k)
          /\ [k \in 1..Len(SpanTicks) |-> SpanTicks[k].at] = PierLayout(Parameters)
    /\ bridgeData.rendered =>
          Len(ElevationSpanDimensions) = Len(PierLayout(calc.params)) + 1

----------------------------------------------------------------------------
(* Properties of repeated calls *)

PierChainagesOf(elevation) ==
    [i \in 1..Len(elevation.piers) |-> elevation.piers[i].chainage]

AddedCommands ==
    CommandsOf({"addCrossSection"}, {"profile", "chainage", "level"})

\* C22: the coordinate mapping of a DWGGenerator is stateless across runs:
\* what a public operation emits for a (chainage, level) depends only on the
\* ParameterSet and on the arguments of that call, never on the options or
\* the scale of an earlier call.  For addCrossSection: the commands it
\* appends are those an instance with no earlier call appends for the same
\* survey; for generateDWG: the list is that of a new instance run with the
\* same options.
C22_MappingStateless ==
    /\ lastCall.op = "addCrossSection" =>
          \A data \in SectionDataSets(Parameters) :
              AddedCommands = addCrossSection(dwg, data) =>
                  AddedCommands = addCrossSection(NewDWGGenerator(Parameters), data)
    /\ lastCall.op = "generateDWG" =>
          commands = generateDWG(NewDWGGenerator(Parameters), lastCall.options).commands

----------------------------------------------------------------------------
(* Properties of the page state *)

\* C23: in the page state the derived constants stored next to the parameters
\* (vvs, hhs, skew1, sc = scale1 / scale2) are the ones computed from the
\* parameters currently stored (by either conversion of skew to radians).
C23_ConstantsOfStoredParameters ==
    ui.bridgeData # <<>> =>
        ui.bridgeData[1].calculatedValues \in
            {routeCalculatedValues(ui.bridgeData[1].parameters),
             pageCalculatedValues(ui.bridgeData[1].parameters)}

----------------------------------------------------------------------------
(* Properties of the detailed piers *)

\* the levels of a detailed pier: the cap bottom stands 0.5 + 0.8 below toprl,
\* the footing top 1.0 below datum
CapBottom(p) == p.toprl - Dm(5) - Dm(8)
FootingTop(p) == p.datum - M(1)
BatterRatio == 8

\* the lines drawDetailedPiers drew of a member of the pier at chainage xc
MemberOf(part, xc) ==
    SelectSeq(commands,
              LAMBDA c : c.by = "drawDetailedPiers" /\ c.part = part /\ c.at = xc)

DetailedPiersDrawn ==
    /\ FromGenerator
    /\ lastCall.options.includeDetailedPier
    /\ PierLayout(Parameters) # <<>>

\* C24: in drawDetailedPiers each pier's stem is a trapezoid from the cap
\* bottom down to the footing top (bottom strictly below top), each side
\* battered by (vertical extent) / 8, and the footing rectangle is centred on
\* the pier chainage under the stem.
C24_StemReachesFooting ==
    DetailedPiersDrawn =>
        \A k \in 1..Len(PierLayout(Parameters)) :
            LET xc == PierLayout(Parameters)[k]
                stem == MemberOf("stem", xc)
                footing == MemberOf("footing", xc)
                top == CapBottom(Parameters)
                bottom == FootingTop(Parameters)
                halfTop == Dm(18) \div 2
                batterOffset == (top - bottom) \div BatterRatio
            IN  /\ Len(stem) = 4 /\ Len(footing) = 4
                /\ bottom < top
                /\ RunsBetween(stem[1], xc - halfTop, top, xc + halfTop, top)
                /\ RunsBetween(stem[3], xc + halfTop + batterOffset, bottom,
                               xc - halfTop - batterOffset, bottom)
                /\ \E w \in 1..(2 * Q * MaxSpans) :
                      RunsBetween(footing[1], xc - w, bottom, xc + w, bottom)

----------------------------------------------------------------------------
(* Termination and cost *)

VerticalBound(p) == Floor(p.right - p.left, p.xincr) + 1
HorizontalBound(p) == Floor(p.toprl - p.datum, p.yincr) + 1

GridFinished == loop.pass = "done" /\ loop.layout # <<>>

\* the grid lines counted so far stay within the bounds, the finished loops
\* pushed the lines drawGrid pushes, and the layout marks stay within them too
GridBounded ==
    /\ loop.vertical <= VerticalBound(Parameters)
    /\ loop.horizontal <= HorizontalBound(Parameters)
    /\ loop.pass = "done" =>
          /\ loop.vertical =
                Len(GridValues(Parameters.left, Parameters.right, Parameters.xincr))
          /\ loop.horizontal =
                Len(GridValues(Parameters.datum, Parameters.toprl, Parameters.yincr))
          /\ Len(drawGrid(dwg)) <= 2 * (loop.vertical + loop.horizontal)
    /\ loop.layout # <<>> =>
          /\ Len(loop.layout[1].grid.xMarks) <= VerticalBound(calc.params)
          /\ Len(loop.layout[1].grid.yMarks) <= HorizontalBound(calc.params)

----------------------------------------------------------------------------
(* Properties of the elevation's supports *)

\* the factor hpos applies to a length: hpos(a + w) - hpos(a)
HorizontalFactor == calc_hpos(calc, M(1)) - calc_hpos(calc, 0)

FoundationWidth == Dm(18) + M(1)

\* C26: in generateBridgeElevation every pier foundation rectangle is centred
\* on its pier's drawing x-coordinate and its drawn width is foundationWidth
\* times the horizontal drawing factor of hpos, whatever left is.
C26_FoundationWidth ==
    bridgeData.rendered =>
        \A i \in 1..Len(bridgeData.bridgeElevation.foundations) :
            LET f == bridgeData.bridgeElevation.foundations[i].points
                pier == bridgeData.bridgeElevation.piers[i]
            IN  /\ f[1].x + f[2].x = 2 * calc_hpos(calc, pier.chainage)
                /\ (f[2].x - f[1].x) * M(1) = FoundationWidth * HorizontalFactor

\* a box of the elevation stands on its base, with its top not above the deck
BoxBelowDeck(box) ==
    /\ box.points[1].y < box.points[3].y
    /\ box.height > 0
    /\ box.points[3].y <= calc_vpos(calc, DeckLevel(calc.params))

\* the upright wall lines drawAbutment drew, from the base to the top
AbutmentWalls ==
    {i \in 1..Len(commands) :
        /\ commands[i].by = "drawAbutment"
        /\ commands[i].part = "wall"
        /\ commands[i].x1 = commands[i].x2}

\* C27: for every valid ParameterSet (toprl > datum) every simple pier and
\* abutment box has strictly positive height and lies below the deck: its top
\* is strictly above its base (datum for abutments, datum - 3 for piers) and
\* not above the deck level toprl - 1.5.
C27_BoxesBelowDeck ==
    /\ bridgeData.rendered =>
          /\ \A i \in 1..Len(bridgeData.bridgeElevation.piers) :
                BoxBelowDeck(bridgeData.bridgeElevation.piers[i])
          /\ \A i \in 1..Len(bridgeData.bridgeElevation.abutments) :
                BoxBelowDeck(bridgeData.bridgeElevation.abutments[i])
    /\ FromGenerator =>
          \A i \in AbutmentWalls :
              /\ commands[i].y1 < commands[i].y2
              /\ commands[i].y2 <= vpos(dwg, DeckLevel(Parameters))

\* the supports of a bridge: left, the piers, right; and its spans
Supports(p, piers) == <<p.left>> \o piers \o <<p.right>>

SpansOf(supports) ==
    [k \in 1..(Len(supports) - 1) |-> supports[k + 1] - supports[k]]

RegularSupports(p, piers) ==
    LET spans == SpansOf(Supports(p, piers))
    IN  /\ \A k \in 1..Len(spans) : spans[k] > 0
        /\ \A k \in 1..Len(piers) : p.left < piers[k] /\ piers[k] < p.right
        /\ \A j, k \in 1..Len(spans) : spans[j] = spans[k]
        /\ Len(spans) * spans[1] = p.right - p.left
        /\ p.right - p.left >= M(30) =>
              \A k \in 1..Len(spans) : spans[k] >= M(30) /\ spans[k] < M(60)

\* C28: for every ParameterSet with right > left the supports left, pier 1,
\* ..., pier n, right are strictly increasing, all piers lie strictly between
\* left and right, all spans have equal length summing to right - left, and
\* when right - left >= 30 every span is at least 30 and less than 60 long.
C28_RegularSupports ==
    /\ RegularSupports(Parameters, drawBridgePierChainages(Parameters))
    /\ bridgeData.rendered => RegularSupports(calc.params, ElevationPierChainages)
    /\ (FromGenerator /\ ~lastCall.options.includeDetailedPier) =>
          RegularSupports(Parameters, ElementsOf({"drawPier"}, {"cap"}))

C28_ThreeUnevenSpansDrawn ==
    /\ bridgeData.rendered
    /\ FromGenerator
    /\ ~lastCall.options.includeDetailedPier
    /\ BridgeLength = M(100)
    /\ Len(ElementsOf({"drawPier"}, {"cap"})) = 2
    /\ Len(ElevationPierChainages) = 2

----------------------------------------------------------------------------
(* Properties of the project store *)

\* the answers of a given status
AnswersOf(status) ==
    {k \in 1..Len(request.answers) : request.answers[k].status = status}

\* the cross-sections a body asks for, as the store would hold them for the
\* project: one record per element, numbered from 0
AskedSections(body, projectId) ==
    IF body.parameters.kind = "object" /\
       body.parameters.crossSections.kind = "array"
    THEN [k \in 1..Len(body.parameters.crossSections.items) |->
             [projectId |-> projectId,
              chainage |-> body.parameters.crossSections.items[k].chainage,
              level |-> body.parameters.crossSections.items[k].level,
              sequence |-> k - 1]]
    ELSE <<>>

\* the cross-sections the store holds for a project, without their own ids
StoredSections(projectId) ==
    [k \in 1..Len(getBridgeCrossSections(storage, projectId)) |->
        [projectId |-> getBridgeCrossSections(storage, projectId)[k].projectId,
         chainage |-> getBridgeCrossSections(storage, projectId)[k].chainage,
         level |-> getBridgeCrossSections(storage, projectId)[k].level,
         sequence |-> getBridgeCrossSections(storage, projectId)[k].sequence]]

\* the store holds nothing that the request of an answer created
NothingStored(a) ==
    /\ a.project \notin DOMAIN storage.bridgeProjects
    /\ a.project \notin DOMAIN storage.bridgeParameters
    /\ getBridgeCrossSections(storage, a.project) = <<>>

\* the store holds all that the request of an answer asked for
AllStored(a) ==
    /\ a.project \in DOMAIN storage.bridgeProjects
    /\ storage.bridgeProjects[a.project].name = a.body.name
    /\ a.project \in DOMAIN storage.bridgeParameters
    /\ storage.bridgeParameters[a.project].parameters = a.body.parameters
    /\ StoredSections(a.project) = AskedSections(a.body, a.project)

\* C29: POST /api/bridge/project is all-or-nothing: after an error response
\* the store holds no project, parameters or cross-section record created by
\* that request; after a success it holds the project, its parameters and
\* all of its cross-sections in sequence order.
C29_AllOrNothing ==
    /\ \A k \in AnswersOf(500) : NothingStored(request.answers[k])
    /\ \A k \in AnswersOf(200) : AllStored(request.answers[k])

----------------------------------------------------------------------------
(* Properties of the progress tracker *)

\* the steps of the rendered tracker that carry a flag
StepsWith(flag) ==
    {id \in DOMAIN tracker.steps : tracker.steps[id][flag]}

\* the first step that is not completed, or 0 when all are
FirstNotCompleted ==
    IF StepsWith("completed") = DOMAIN tracker.steps
    THEN 0
    ELSE CHOOSE id \in DOMAIN tracker.steps :
             /\ ~tracker.steps[id].completed
             /\ \A j \in 1..(id - 1) : tracker.steps[j].completed

\* C30: for every progress value in 0..100 at most one step is active and
\* never a completed one, the completed steps form a prefix of the five
\* steps, and when status is 'error' with progress < 100 exactly one step,
\* the first not-completed one, is marked as error while no step is active.
C30_StepsConsistent ==
    tracker.rendered =>
        /\ Cardinality(StepsWith("active")) <= 1
        /\ StepsWith("active") \cap StepsWith("completed") = {}
        /\ \E n \in 0..5 : StepsWith("completed") = 1..n
        /\ (tracker.status = "error" /\ tracker.progress < 100) =>
              /\ StepsWith("error") = {FirstNotCompleted}
              /\ StepsWith("active") = {}

====
